---------------------------- MODULE Spec2Model ----------------------------
(***************************************************************************)
(* Acquisition-and-enrichment pipeline of market_intelligence:             *)
(*   scrapers/base.py    retrying fetch client, company upsert             *)
(*   scrapers/etender.py deals extractor (scrape_all, _store_deal)         *)
(*   scrapers/reyting.py ratings extractor (_store_listing_company)        *)
(*   pipeline/enrich.py  classification, region filling, aggregation       *)
(*                                                                         *)
(* Texts (company names, customer names, category texts) are sequences of  *)
(* tokens; a token is a word, a phrase, a run of one whitespace character  *)
(* (" ") or a quote character ("'").  Non-ASCII (Cyrillic) literals of the *)
(* source are written as ASCII tags ending in "_CYR".  SQL NULL / Python   *)
(* None is the empty set, a present value v is {v}.                        *)
(***************************************************************************)
EXTENDS Integers, Sequences, FiniteSets, TLC

VARIABLES
    companies,      \* table companies: stir -> row (primary key stir)
    tenders,        \* table tender_results: deal_id -> row (unique deal_id)
    pendingDeal,    \* _store_deal between its two statements: <<>> or <<deal>>
    observed,       \* history: identifier -> raw names handed to a merge statement
    lastOp,         \* name of the operation that completed last
    lastCount,      \* row count returned by the last enrichment operation
    today,          \* CURRENT_DATE as a day number
    regionFilled,   \* history: deals whose null region an enrichment run filled
    lastAgg,        \* history: lookback and date of the last aggregation run, and
                    \* how many such runs came in a row (counted up to 2)
    aggPc,          \* aggregate_tender_stats between its two statements: <<>> or
                    \* <<[months, before]>>, before = the statistics at its start
    readerSaw,      \* the last company profile read: <<>> or <<what the query saw>>
    scrape,         \* the scrape_all run of the deals scraper: its locals and ledger row
    listing,        \* the scrape_listing run of the ratings scraper, likewise
    details,        \* the scrape_details run of the ratings scraper, likewise
    rating_criteria,\* the rating_criteria table: sequence of rows, id = position
    ensure,         \* the _ensure_criterion calls in progress, one per detail task
    req             \* the _request call in progress (fetch client)

vars == <<companies, tenders, pendingDeal, observed, lastOp, lastCount, today,
          regionFilled, lastAgg, aggPc, readerSaw, scrape, listing, details,
          rating_criteria, ensure, req>>

\* the state of the ratings scraper's runs
ratingVars == <<listing, details, rating_criteria, ensure>>

----------------------------------------------------------------------------
(* Generic helpers *)

NULL == {}
Some(v) == {v}
Val(o) == CHOOSE v \in o : TRUE
Coalesce(a, b) == IF a # NULL THEN a ELSE b

Range(s) == {s[i] : i \in 1..Len(s)}

RECURSIVE SumLen(_)
SumLen(s) == IF s = <<>> THEN 0 ELSE Len(Head(s)) + SumLen(Tail(s))

RECURSIVE FilterSeq(_, _)
\* the subsequence of s whose elements are not in the set drop
FilterSeq(s, drop) ==
    IF s = <<>> THEN <<>>
    ELSE IF Head(s) \in drop THEN FilterSeq(Tail(s), drop)
         ELSE <<Head(s)>> \o FilterSeq(Tail(s), drop)

----------------------------------------------------------------------------
(* Name canonicalisation: scrapers/base.py clean_company_name *)

WS == " "
QuoteChars == {"'"}

\* str.upper() / case folding on the token vocabulary
UpperOf ==
    [t \in {"ooo", "mchj", "gamma", "qurilish", "llc"} |->
        CASE t = "ooo" -> "OOO"
          [] t = "mchj" -> "MCHJ"
          [] t = "gamma" -> "GAMMA"
          [] t = "qurilish" -> "QURILISH"
          [] t = "llc" -> "LLC"]

Upper(t) == IF t \in DOMAIN UpperOf THEN UpperOf[t] ELSE t

\* _LEGAL_FORMS (ASCII alternatives), matched with re.IGNORECASE on whole words
LegalForms == {"OOO", "MCHJ", "AO", "AJ", "QK", "QMJ", "XK", "GMBH", "LLC", "YATT", "XP"}

IsLegalForm(t) == Upper(t) \in LegalForms

\* no legal form is deleted
StripLegalForms_keep(s) == s

RECURSIVE StripLegalForms(_)
\* _LEGAL_FORMS.sub("", name): every whole-word legal form is deleted,
\* the whitespace around it stays
StripLegalForms(s) ==
    IF s = <<>> THEN <<>>
    ELSE IF IsLegalForm(Head(s)) THEN StripLegalForms(Tail(s))
         ELSE <<Head(s)>> \o StripLegalForms(Tail(s))

RECURSIVE CollapseSpaces(_)
\* _EXTRA_SPACES.sub(" ", name): a run of whitespace becomes one space
CollapseSpaces(s) ==
    IF Len(s) < 2 THEN s
    ELSE IF s[1] = WS /\ s[2] = WS THEN CollapseSpaces(Tail(s))
         ELSE <<Head(s)>> \o CollapseSpaces(Tail(s))

\* str.strip(): leading and trailing whitespace removed (after collapsing
\* there is at most one space at each end)
Strip(s) ==
    LET a == IF s # <<>> /\ Head(s) = WS THEN Tail(s) ELSE s
    IN  IF a # <<>> /\ a[Len(a)] = WS THEN SubSeq(a, 1, Len(a) - 1) ELSE a

UpperSeq(s) == [i \in 1..Len(s) |-> Upper(s[i])]

clean_company_name(raw) ==
    UpperSeq(Strip(CollapseSpaces(StripLegalForms(FilterSeq(raw, QuoteChars)))))

\* SQL LENGTH(text) of a token sequence
LENGTH(s) == SumLen(s)

----------------------------------------------------------------------------
(* Region extraction from free text: scrapers/base.py extract_region *)

\* config.regions, in order (the entries the texts of the model can contain)
regions == <<"Toshkent shahar_CYR", "Buxoro_CYR", "Toshkent", "Buxoro">>

\* the lower-cased patterns that occur as substrings of a text token
SubstringsOf(t) ==
    CASE t = "Toshkent" -> {"toshkent"}
      [] t = "TOSHKENT" -> {"toshkent"}
      [] t = "Toshkent viloyati" -> {"toshkent", "toshkent viloyati"}
      [] t = "Toshkent shahar_CYR" -> {"toshkent shahar_cyr"}
      [] t = "Buxoro_CYR" -> {"buxoro_cyr"}
      [] t = "Buxoro" -> {"buxoro"}
      [] t = "Sergeli" -> {"sergeli"}
      [] t = "Tashkent_CYR" -> {"tashkent_cyr"}
      [] t = "LABORATORIYA" -> {"laboratoriya"}
      [] t = "BAHOLASH" -> {"baholash", "baho"}
      [] t = "EKSPERTIZA" -> {"ekspertiza", "ekspert"}
      [] t = "NAZORAT" -> {"nazorat"}
      [] t = "qurilish" -> {"qurilish"}
      [] t = "QURILISH" -> {"qurilish"}
      [] t = "doshkolnyh_CYR" -> {"shkol_cyr"}
      [] t = "pitanie_CYR" -> {"pitan_cyr"}
      [] t = "Catering" -> {"catering"}
      [] OTHER -> {}

\* str.lower() of a pattern of the configuration
LowerOf(p) ==
    CASE p = "Toshkent" -> "toshkent"
      [] p = "Toshkent viloyati" -> "toshkent viloyati"
      [] p = "Toshkent shahri" -> "toshkent shahri"
      [] p = "Toshkent shahar_CYR" -> "toshkent shahar_cyr"
      [] p = "Buxoro_CYR" -> "buxoro_cyr"
      [] p = "Buxoro" -> "buxoro"
      [] p = "Buxoro viloyati" -> "buxoro viloyati"
      [] p = "Sergeli" -> "sergeli"
      [] p = "Tashkent_CYR" -> "tashkent_cyr"
      [] OTHER -> p

\* `pattern.lower() in text.lower()` and SQL `text ILIKE '%pattern%'`
ContainsCI(text, pattern) ==
    \E i \in 1..Len(text) : LowerOf(pattern) \in SubstringsOf(text[i])

RECURSIVE FirstRegionFrom(_, _)
FirstRegionFrom(text, k) ==
    IF k > Len(regions) THEN NULL
    ELSE IF ContainsCI(text, regions[k]) THEN Some(regions[k])
         ELSE FirstRegionFrom(text, k + 1)

extract_region(text) == IF text = <<>> THEN NULL ELSE FirstRegionFrom(text, 1)

----------------------------------------------------------------------------
(* Identity merge: BaseScraper.upsert_company and                          *)
(* ReytingScraper._store_listing_company                                   *)

\* column defaults of a row inserted into companies
DefaultCompany ==
    [canonical_name |-> <<>>, raw_names |-> <<>>, region |-> NULL,
     source |-> NULL, company_type |-> "unknown",
     rating_letter |-> NULL, rating_score |-> NULL, rating_fetched_at |-> NULL,
     total_wins |-> 0, total_contract_value |-> 0, avg_discount_pct |-> NULL,
     first_tender_date |-> NULL, last_tender_date |-> NULL,
     active_regions |-> {}]

\* the function cs with key k set to row (INSERT of a new key or UPDATE)
Put(cs, k, row) ==
    [x \in DOMAIN cs \cup {k} |-> IF x = k THEN row ELSE cs[x]]

\* raw_names = CASE WHEN NOT raw_names @> [$3] THEN raw_names || [$3]
\*             ELSE raw_names END
MergeRawNames_overwrite(cur, raw_name) == <<raw_name>>
MergeRawNames_append(cur, raw_name) == Append(cur, raw_name)
MergeRawNames(cur, raw_name) ==
    IF raw_name \notin Range(cur) THEN Append(cur, raw_name) ELSE cur

\* INSERT INTO companies ... ON CONFLICT (stir) DO UPDATE SET raw_names, region
upsert_company(cs, stir, raw_name, source, region) ==
    IF stir \notin DOMAIN cs
    THEN Put(cs, stir,
             [DefaultCompany EXCEPT
                 !.canonical_name = clean_company_name(raw_name),
                 !.raw_names = <<raw_name>>,
                 !.region = region,
                 !.source = Some(source)])
    ELSE Put(cs, stir,
             [cs[stir] EXCEPT
                 !.raw_names = MergeRawNames(cs[stir].raw_names, raw_name),
                 !.region = Coalesce(cs[stir].region, region)])

\* the ON CONFLICT branch of the listing upsert
ListingMerge(old, canonical, name, region, rating, score) ==
    [old EXCEPT
        !.canonical_name = IF LENGTH(canonical) > LENGTH(old.canonical_name)
                           THEN canonical ELSE old.canonical_name,
        !.raw_names = MergeRawNames(old.raw_names, name),
        !.region = Coalesce(region, old.region),
        !.rating_letter = Coalesce(rating, old.rating_letter),
        !.rating_score = Coalesce(score, old.rating_score),
        !.rating_fetched_at = Some("now"),
        !.source = IF old.source = Some("etender") THEN Some("both")
                   ELSE Coalesce(old.source, Some("reyting"))]

\* _store_listing_company: company is the listing payload
\* [inn, name, rating, sumbal, viloyat_name]
store_listing_company(cs, company) ==
    LET inn == company.inn
        canonical == clean_company_name(company.name)
    IN  IF inn = "" \/ Len(inn) > 9 THEN cs
        ELSE IF inn \notin DOMAIN cs
        THEN Put(cs, inn,
                 [DefaultCompany EXCEPT
                     !.canonical_name = canonical,
                     !.raw_names = <<company.name>>,
                     !.region = company.viloyat_name,
                     !.rating_letter = company.rating,
                     !.rating_score = company.sumbal,
                     !.rating_fetched_at = Some("now"),
                     !.source = Some("reyting")])
        ELSE Put(cs, inn,
                 ListingMerge(cs[inn], canonical, company.name,
                              company.viloyat_name, company.rating,
                              company.sumbal))


----------------------------------------------------------------------------
(* Deals extractor: ETenderScraper._store_deal *)

\* a deal_date string that date.fromisoformat rejects
BadDate == -1

\* Date.fromisoformat(str(raw).split("T")[0]), ValueError -> None
ParseDealDate(raw) ==
    IF raw = NULL THEN NULL
    ELSE IF Val(raw) = BadDate THEN NULL ELSE raw

\* Decimal(str(x)) if x is not None else Decimal(0)
CostOrZero(raw) == IF raw = NULL THEN 0 ELSE Val(raw)

\* the payload of one deal of the DealsList response
Deal(deal_id, provider_inn, provider_name, customer_name, category_name, start_cost, deal_cost, deal_date) ==
    [deal_id |-> deal_id, provider_inn |-> provider_inn,
     provider_name |-> provider_name, customer_name |-> customer_name,
     category_name |-> category_name, start_cost |-> start_cost,
     deal_cost |-> deal_cost, deal_date |-> deal_date]

\* _store_deal up to the company upsert: the normalised fields
\* (a provider identifier longer than 9 characters is dropped)
PrepareDeal(deal) ==
    [deal_id |-> Val(deal.deal_id),
     provider_inn |-> IF deal.provider_inn # "" /\ Len(deal.provider_inn) > 9
                      THEN "" ELSE deal.provider_inn,
     provider_name |-> deal.provider_name,
     customer_name |-> deal.customer_name,
     category_name |-> deal.category_name,
     region |-> Coalesce(extract_region(deal.customer_name),
                         extract_region(deal.category_name)),
     start_cost |-> CostOrZero(deal.start_cost),
     deal_cost |-> CostOrZero(deal.deal_cost),
     deal_date |-> ParseDealDate(deal.deal_date)]

\* region = EXCLUDED.region of the tender upsert
TenderRegionOnConflict_fill(old, new) == Coalesce(old, new)
TenderRegionOnConflict(old, new) == new

\* INSERT INTO tender_results ... ON CONFLICT (deal_id) DO UPDATE SET ...
\* (provider_stir is not among the updated columns)
insert_tender(ts, p) ==
    IF p.deal_id \notin DOMAIN ts
    THEN Put(ts, p.deal_id,
             [start_cost |-> p.start_cost, deal_cost |-> p.deal_cost,
              customer_name |-> p.customer_name,
              provider_stir |-> IF p.provider_inn = "" THEN NULL
                                ELSE Some(p.provider_inn),
              provider_name |-> p.provider_name,
              deal_date |-> p.deal_date,
              deal_description |-> p.category_name,
              region |-> p.region])
    ELSE Put(ts, p.deal_id,
             [ts[p.deal_id] EXCEPT
                 !.start_cost = p.start_cost,
                 !.deal_cost = p.deal_cost,
                 !.customer_name = p.customer_name,
                 !.provider_name = p.provider_name,
                 !.deal_date = p.deal_date,
                 !.deal_description = p.category_name,
                 !.region = TenderRegionOnConflict(ts[p.deal_id].region, p.region)])

\* config.construction_keywords and config.non_construction_keywords (a
\* selection; Cyrillic entries as ASCII tags), all lower case
CONSTRUCTION_KEYWORDS == <<"qurilish", "shkol_cyr", "tamir">>
NON_CONSTRUCTION_KEYWORDS == <<"pitan_cyr", "catering", "server_cyr">>

\* kw in text, for a text that was lower-cased with str.lower()
KeywordIn(kw, text) == \E i \in 1..Len(text) : kw \in SubstringsOf(text[i])

\* any(kw in text for kw in keywords)
AnyKeywordIn(keywords, text) ==
    \E k \in 1..Len(keywords) : KeywordIn(keywords[k], text)

\* " ".join([customer_name, provider_name])
JoinNames(customer_name, provider_name) == customer_name \o <<WS>> \o provider_name

\* tier 2 without the negative override
is_construction_deal_nooverride(deal) ==
    IF AnyKeywordIn(CONSTRUCTION_KEYWORDS, deal.category_name)
    THEN ~AnyKeywordIn(NON_CONSTRUCTION_KEYWORDS, deal.category_name)
    ELSE AnyKeywordIn(CONSTRUCTION_KEYWORDS,
                      JoinNames(deal.customer_name, deal.provider_name))

is_construction_deal(deal) ==
    LET category == deal.category_name
        is_non_construction == AnyKeywordIn(NON_CONSTRUCTION_KEYWORDS, category)
        secondary == JoinNames(deal.customer_name, deal.provider_name)
    IN  IF AnyKeywordIn(CONSTRUCTION_KEYWORDS, category)
        THEN ~is_non_construction
        ELSE IF AnyKeywordIn(CONSTRUCTION_KEYWORDS, secondary)
             THEN ~is_non_construction
             ELSE FALSE

\* history of the raw names handed to a merge statement for identifier s
Observe(obs, s, raw_name) ==
    [x \in DOMAIN obs \cup {s} |->
        IF x = s THEN (IF s \in DOMAIN obs THEN obs[s] ELSE {}) \cup {raw_name}
        ELSE obs[x]]

\* _store_deal, first statement: validation and upsert_company
StoreDealUpsert(deal) ==
    /\ pendingDeal = <<>>
    /\ IF deal.deal_id = NULL
       THEN /\ lastOp' = "store_deal"
            /\ UNCHANGED <<companies, pendingDeal, observed>>
       ELSE LET p == PrepareDeal(deal) IN
            /\ lastOp' = "upsert_company"
            /\ pendingDeal' = <<p>>
            /\ IF p.provider_inn # ""
               THEN /\ companies' = upsert_company(companies, p.provider_inn,
                                                   p.provider_name, "etender", p.region)
                    /\ observed' = Observe(observed, p.provider_inn, p.provider_name)
               ELSE UNCHANGED <<companies, observed>>
    /\ UNCHANGED <<ratingVars, scrape, aggPc, readerSaw, tenders, lastCount, today, lastAgg, regionFilled, req>>

\* _store_deal, second statement: the tender upsert
StoreDealInsert ==
    /\ pendingDeal # <<>>
    /\ tenders' = insert_tender(tenders, pendingDeal[1])
    /\ pendingDeal' = <<>>
    /\ lastOp' = "store_deal"
    /\ UNCHANGED <<ratingVars, scrape, aggPc, readerSaw, companies, observed, lastCount, today, lastAgg, regionFilled, req>>

\* _store_listing_company (one statement)
StoreListingCompany(company) ==
    /\ companies' = store_listing_company(companies, company)
    /\ observed' = IF company.inn = "" \/ Len(company.inn) > 9 THEN observed
                   ELSE Observe(observed, company.inn, company.name)
    /\ lastOp' = "store_listing"
    /\ UNCHANGED <<ratingVars, scrape, aggPc, readerSaw, tenders, pendingDeal, lastCount, today, lastAgg, regionFilled, req>>

----------------------------------------------------------------------------
(* Range-paginated run of the deals scraper: ETenderScraper.scrape_all     *)

PAGE_SIZE == 2
etender_concurrency == 2
UnknownTotalPages == 10000
EmptyStreakLimit == 3
ProgressEvery == 50

ZeroCounts == [found |-> 0, inserted |-> 0, updated |-> 0, skipped |-> 0, failed |-> 0]

\* the ledger row of one run. rows is the number of rows the run has
\* inserted into scrape_logs; status is "none" while there is no row
NoLog ==
    [rows |-> 0, status |-> "none", error |-> NULL, counts |-> ZeroCounts,
     last_page_scraped |-> 0]

\* start_scrape_log: INSERT INTO scrape_logs (source) ... RETURNING id
start_scrape_log_twice(log) == [log EXCEPT !.rows = @ + 2, !.status = "running"]
start_scrape_log(log) == [log EXCEPT !.rows = @ + 1, !.status = "running"]

\* finish_scrape_log: UPDATE scrape_logs SET finished_at, status, error_message
finish_scrape_log_noerror(log, status, error) == [log EXCEPT !.status = status]
finish_scrape_log(log, status, error) ==
    [log EXCEPT !.status = status, !.error = error]

\* str(exc) of an exception that escaped a fetch
FetchError == "HTTP 503"

\* no run yet: no ledger row, no locals
ScrapeIdle ==
    [pc |-> "idle", outcome |-> "none", start_page |-> 0, page |-> 0, total_pages |-> 0,
     batch_size |-> 0, empty_streak |-> 0, all_empty |-> TRUE,
     results |-> <<>>, items |-> <<>>, stats |-> ZeroCounts,
     log |-> NoLog,
     batch |-> <<>>, stats0 |-> ZeroCounts, norecord_run |-> 0,
     okempty_run |-> 0, lastDeal |-> <<>>, unstored |-> 0, record_failed |-> 0]

Min(a, b) == IF a <= b THEN a ELSE b

\* total_pages = ceil(total_count / PAGE_SIZE) if total_count else 10000,
\* then min(total_pages, start_page + max_pages - 1) if max_pages
TotalPages(total_count, start_page, max_pages) ==
    LET all == IF total_count # 0
               THEN (total_count + PAGE_SIZE - 1) \div PAGE_SIZE
               ELSE UnknownTotalPages
    IN  IF max_pages # NULL /\ Val(max_pages) # 0
        THEN Min(all, start_page + Val(max_pages) - 1) ELSE all

\* what asyncio.gather(..., return_exceptions=True) holds for one page:
\* an exception, or the list _fetch_page returned
PageFailed == [ok |-> FALSE, items |-> <<>>]
PageOf(items) == [ok |-> TRUE, items |-> items]

\* a start_cost or deal_cost that Decimal(str(x)) rejects
BadCost == -1

\* _store_deal raises between its two statements: the company upsert is
\* done, the cost cannot be parsed, the tender upsert is not reached
StoreDealRaises(deal) ==
    /\ deal.deal_id # NULL
    /\ deal.start_cost = Some(BadCost) \/ deal.deal_cost = Some(BadCost)

\* _store_deal as one step: <<companies, tenders, is_insert>>
store_deal(cs, ts, deal) ==
    IF deal.deal_id = NULL THEN <<cs, ts, FALSE>>
    ELSE LET p == PrepareDeal(deal)
         IN  <<IF p.provider_inn # ""
               THEN upsert_company(cs, p.provider_inn, p.provider_name, "etender", p.region)
               ELSE cs,
               IF StoreDealRaises(deal) THEN ts ELSE insert_tender(ts, p),
               p.deal_id \notin DOMAIN ts>>

\* finish_scrape_log(log_id, status) after the final update_scrape_log
FinishedLog(log, stats, status) ==
    finish_scrape_log([log EXCEPT !.counts = IF status = "completed" THEN stats ELSE @],
                      status, NULL)

\* scrape_all up to the loop: ledger row, discovery, page ceiling
ScrapeAll(start_page, max_pages, total_count, discover_ok) ==
    /\ scrape.pc = "idle"
    /\ scrape' =
         IF ~discover_ok
         THEN [ScrapeIdle EXCEPT !.pc = "done", !.outcome = "raised",
                                 !.start_page = start_page,
                                 !.log = finish_scrape_log(start_scrape_log(@), "failed",
                                                           Some(FetchError))]
         ELSE [ScrapeIdle EXCEPT !.pc = "loop", !.start_page = start_page,
                                 !.page = start_page,
                                 !.total_pages = TotalPages(total_count, start_page, max_pages),
                                 !.log = start_scrape_log(@)]
    /\ UNCHANGED <<ratingVars, companies, tenders, pendingDeal, observed, lastOp, lastCount, today,
                   regionFilled, lastAgg, aggPc, readerSaw, req>>

\* while page <= total_pages: the batch is fetched concurrently and gathered;
\* results is one outcome per page of the batch
ScrapeFetchBatch(results) ==
    /\ scrape.pc = "loop"
    /\ scrape.page <= scrape.total_pages
    /\ Len(results) = Min(etender_concurrency, scrape.total_pages - scrape.page + 1)
    /\ scrape' = [scrape EXCEPT !.pc = "batch",
                                !.batch_size = Len(results),
                                !.results = results,
                                !.batch = results,
                                !.stats0 = scrape.stats,
                                !.items = <<>>,
                                !.all_empty = TRUE]
    /\ UNCHANGED <<ratingVars, companies, tenders, pendingDeal, observed, lastOp, lastCount, today,
                   regionFilled, lastAgg, aggPc, readerSaw, req>>

\* an exception among the results ends the handling of the batch
PageResult_abort(s, result) ==
    IF ~result.ok
    THEN [s EXCEPT !.results = <<>>,
                   !.stats = [@ EXCEPT !.failed = @ + 1]]
    ELSE IF result.items = <<>>
    THEN [s EXCEPT !.results = Tail(@)]
    ELSE [s EXCEPT !.results = Tail(@),
                   !.all_empty = FALSE,
                   !.items = result.items]

\* the body of "for i, result in enumerate(results)" up to the deals: an
\* exception is counted and passed over, an empty list is passed over, a
\* list with records is taken up
PageResult(s, result) ==
    IF ~result.ok
    THEN [s EXCEPT !.results = Tail(@),
                   !.stats = [@ EXCEPT !.failed = @ + 1]]
    ELSE IF result.items = <<>>
    THEN [s EXCEPT !.results = Tail(@)]
    ELSE [s EXCEPT !.results = Tail(@),
                   !.all_empty = FALSE,
                   !.items = result.items]

\* one result of the gathered batch
ScrapePage ==
    /\ scrape.pc = "batch"
    /\ scrape.items = <<>>
    /\ scrape.results # <<>>
    /\ scrape' = PageResult(scrape, Head(scrape.results))
    /\ UNCHANGED <<ratingVars, companies, tenders, pendingDeal, observed, lastOp, lastCount, today,
                   regionFilled, lastAgg, aggPc, readerSaw, req>>

\* for deal in items: count, filter, store
ScrapeDeal ==
    /\ scrape.pc = "batch"
    /\ scrape.items # <<>>
    /\ LET deal == Head(scrape.items)
           accepted == is_construction_deal(deal)
           stored == store_deal(companies, tenders, deal)
       IN  IF accepted
           THEN /\ companies' = stored[1]
                /\ tenders' = stored[2]
                /\ observed' = IF deal.deal_id # NULL /\ PrepareDeal(deal).provider_inn # ""
                               THEN Observe(observed, PrepareDeal(deal).provider_inn,
                                            deal.provider_name)
                               ELSE observed
                /\ lastOp' = "store_deal"
                /\ scrape' = [scrape EXCEPT
                                !.items = Tail(@),
                                !.lastDeal = <<[deal |-> deal, accepted |-> TRUE]>>,
                                !.unstored = IF deal.deal_id = NULL THEN @ + 1 ELSE @,
                                !.record_failed = IF StoreDealRaises(deal) THEN @ + 1 ELSE @,
                                !.stats =
                                   IF StoreDealRaises(deal)
                                   THEN [@ EXCEPT !.found = @ + 1, !.failed = @ + 1]
                                   ELSE [@ EXCEPT
                                           !.found = @ + 1,
                                           !.inserted = IF stored[3] THEN @ + 1 ELSE @,
                                           !.updated = IF stored[3] THEN @ ELSE @ + 1]]
           ELSE /\ scrape' = [scrape EXCEPT
                                !.items = Tail(@),
                                !.lastDeal = <<[deal |-> deal, accepted |-> FALSE]>>,
                                !.stats = [@ EXCEPT !.found = @ + 1,
                                                    !.skipped = @ + 1]]
                /\ UNCHANGED <<companies, tenders, observed, lastOp>>
    /\ UNCHANGED <<ratingVars, pendingDeal, lastCount, today,
                   regionFilled, lastAgg, aggPc, readerSaw, req>>

\* the streak is kept when the batch held records
NextStreak_noreset(all_empty, empty_streak) ==
    IF all_empty THEN empty_streak + 1 ELSE empty_streak

\* if all_empty: empty_streak += 1 ... else: empty_streak = 0
NextStreak(all_empty, empty_streak) ==
    IF all_empty THEN empty_streak + 1 ELSE 0

\* a result of the gathered batch holds at least one record
HasRecord(results) == \E i \in 1..Len(results) : results[i].ok /\ results[i].items # <<>>

\* every page of the gathered batch was fetched and returned no record
AllFetchedEmpty(results) ==
    \A i \in 1..Len(results) : results[i].ok /\ results[i].items = <<>>

\* after the pages of the batch: the empty streak, the break, the cursor,
\* the progress write; after a break the final ledger writes
ScrapeBatchEnd ==
    /\ scrape.pc = "batch"
    /\ scrape.items = <<>>
    /\ scrape.results = <<>>
    /\ LET streak == NextStreak(scrape.all_empty, scrape.empty_streak)
           norecord == IF HasRecord(scrape.batch) THEN 0 ELSE scrape.norecord_run + 1
           okempty == IF AllFetchedEmpty(scrape.batch) THEN scrape.okempty_run + 1 ELSE 0
           page == scrape.page + scrape.batch_size
       IN  scrape' =
             IF scrape.all_empty /\ streak >= EmptyStreakLimit
             THEN [scrape EXCEPT !.pc = "done",
                                 !.outcome = "returned",
                                 !.empty_streak = streak,
                                 !.norecord_run = norecord,
                                 !.okempty_run = okempty,
                                 !.log = FinishedLog(@, scrape.stats, "completed")]
             ELSE [scrape EXCEPT
                     !.pc = "loop",
                     !.empty_streak = streak,
                     !.norecord_run = norecord,
                     !.okempty_run = okempty,
                     !.page = page,
                     !.log = IF (page - scrape.start_page) % ProgressEvery < scrape.batch_size
                             THEN [@ EXCEPT !.counts = [@ EXCEPT
                                                !.found = scrape.stats.found,
                                                !.inserted = scrape.stats.inserted,
                                                !.skipped = scrape.stats.skipped],
                                            !.last_page_scraped = page - 1]
                             ELSE @]
    /\ UNCHANGED <<ratingVars, companies, tenders, pendingDeal, observed, lastOp, lastCount, today,
                   regionFilled, lastAgg, aggPc, readerSaw, req>>

\* the loop condition fails: final ledger writes, return stats
ScrapeFinish ==
    /\ scrape.pc = "loop"
    /\ scrape.page > scrape.total_pages
    /\ scrape' = [scrape EXCEPT !.pc = "done",
                                !.outcome = "returned",
                                !.log = FinishedLog(@, scrape.stats, "completed")]
    /\ UNCHANGED <<ratingVars, companies, tenders, pendingDeal, observed, lastOp, lastCount, today,
                   regionFilled, lastAgg, aggPc, readerSaw, req>>

----------------------------------------------------------------------------
(* Listing run of the ratings scraper: ReytingScraper.scrape_listing       *)

per_page == 2
ListingTypes == <<0, 2>>

\* a sumbal value that Decimal(str(score)) rejects
BadScore == -1

\* no run yet
ListingIdle ==
    [pc |-> "idle", outcome |-> "none", type_index |-> 0, page |-> 0,
     total_pages |-> 0, items |-> <<>>, stats |-> ZeroCounts, log |-> NoLog,
     unstored |-> 0, record_failed |-> 0]

\* _store_listing_company returns before its statement
ListingSkipsStore(company) == company.inn = "" \/ Len(company.inn) > 9

\* _store_listing_company raises: Decimal(str(score)) on a non-numeric score
ListingStoreRaises(company) ==
    ~ListingSkipsStore(company) /\ company.sumbal = Some(BadScore)

\* the except clause around the whole run: finish_scrape_log(log_id, "failed",
\* str(exc)), then raise
RunRaised_nofinish(run, text) ==
    [run EXCEPT !.pc = "done", !.outcome = "raised"]
RunRaised(run, text) ==
    [run EXCEPT !.pc = "done", !.outcome = "raised",
                !.log = finish_scrape_log(@, "failed", Some(text))]

\* the final update_scrape_log and finish_scrape_log(log_id, "completed"),
\* then return stats; the listing and the detail run write found, inserted
\* and failed
RunReturned(run) ==
    [run EXCEPT !.pc = "done", !.outcome = "returned",
                !.log = finish_scrape_log(
                            [@ EXCEPT !.counts = [@ EXCEPT
                                          !.found = run.stats.found,
                                          !.inserted = run.stats.inserted,
                                          !.failed = run.stats.failed]],
                            "completed", NULL)]

\* scrape_listing up to the loop over the types: ledger row, stats
ListingStart ==
    /\ listing.pc = "idle"
    /\ listing' = [ListingIdle EXCEPT !.pc = "count", !.type_index = 1,
                                      !.log = start_scrape_log(@)]
    /\ UNCHANGED <<companies, tenders, pendingDeal, observed, lastOp, lastCount, today,
                   regionFilled, lastAgg, aggPc, readerSaw, scrape, details,
                   rating_criteria, ensure, req>>

\* for type_id in types: the request for the total of the type. It is made
\* outside the per-page try block: an exception of it ends the run.
\* total = NULL stands for the request raising after its retries.
ListingCount(total) ==
    /\ listing.pc = "count"
    /\ listing.type_index <= Len(ListingTypes)
    /\ listing' =
         IF total = NULL
         THEN RunRaised(listing, FetchError)
         ELSE [listing EXCEPT !.pc = "page", !.page = 1,
                              !.total_pages = (Val(total) + per_page - 1) \div per_page]
    /\ UNCHANGED <<companies, tenders, pendingDeal, observed, lastOp, lastCount, today,
                   regionFilled, lastAgg, aggPc, readerSaw, scrape, details,
                   rating_criteria, ensure, req>>

\* for page in range(1, total_pages + 1): the page request inside the try
\* block; an exception is counted and the loop goes to the next page
ListingPage(result) ==
    /\ listing.pc = "page"
    /\ listing.items = <<>>
    /\ listing.page <= listing.total_pages
    /\ listing' =
         IF ~result.ok
         THEN [listing EXCEPT !.stats = [@ EXCEPT !.failed = @ + 1],
                              !.page = @ + 1]
         ELSE IF result.items = <<>>
         THEN [listing EXCEPT !.page = @ + 1]
         ELSE [listing EXCEPT !.items = result.items]
    /\ UNCHANGED <<companies, tenders, pendingDeal, observed, lastOp, lastCount, today,
                   regionFilled, lastAgg, aggPc, readerSaw, scrape, details,
                   rating_criteria, ensure, req>>

\* for company in companies: found, then the store in its own try block:
\* inserted when the call returns, failed when it raises. After the last
\* company of the page the loop goes to the next page.
ListingStore ==
    /\ listing.pc = "page"
    /\ listing.items # <<>>
    /\ LET company == Head(listing.items)
           raises == ListingStoreRaises(company)
           next_page == IF Tail(listing.items) = <<>> THEN listing.page + 1
                        ELSE listing.page
       IN  /\ listing' =
                [listing EXCEPT
                    !.items = Tail(@),
                    !.page = next_page,
                    !.unstored = IF ListingSkipsStore(company) THEN @ + 1 ELSE @,
                    !.record_failed = IF raises THEN @ + 1 ELSE @,
                    !.stats = [@ EXCEPT
                                 !.found = @ + 1,
                                 !.inserted = IF raises THEN @ ELSE @ + 1,
                                 !.failed = IF raises THEN @ + 1 ELSE @]]
           /\ IF raises \/ ListingSkipsStore(company)
              THEN UNCHANGED <<companies, observed, lastOp>>
              ELSE /\ companies' = store_listing_company(companies, company)
                   /\ observed' = Observe(observed, company.inn, company.name)
                   /\ lastOp' = "store_listing"
    /\ UNCHANGED <<tenders, pendingDeal, lastCount, today,
                   regionFilled, lastAgg, aggPc, readerSaw, scrape, details,
                   rating_criteria, ensure, req>>

\* the pages of the type are done: next type
ListingNextType ==
    /\ listing.pc = "page"
    /\ listing.items = <<>>
    /\ listing.page > listing.total_pages
    /\ listing' = [listing EXCEPT !.pc = "count", !.type_index = @ + 1]
    /\ UNCHANGED <<companies, tenders, pendingDeal, observed, lastOp, lastCount, today,
                   regionFilled, lastAgg, aggPc, readerSaw, scrape, details,
                   rating_criteria, ensure, req>>

\* all types are done: final ledger writes, return stats
ListingFinish ==
    /\ listing.pc = "count"
    /\ listing.type_index > Len(ListingTypes)
    /\ listing' = RunReturned(listing)
    /\ UNCHANGED <<companies, tenders, pendingDeal, observed, lastOp, lastCount, today,
                   regionFilled, lastAgg, aggPc, readerSaw, scrape, details,
                   rating_criteria, ensure, req>>

----------------------------------------------------------------------------
(* Detail run of the ratings scraper: ReytingScraper.scrape_details        *)

reyting_concurrency == 2
DetailBatch == 3

\* str(exc) of an exception raised by the storage pool
DbError == "connection is closed"

\* the companies with a rating score
Rated(cs) == {s \in DOMAIN cs : cs[s].rating_score # NULL}

\* SELECT stir FROM companies WHERE rating_score IS NOT NULL
\* ORDER BY rating_score DESC LIMIT limit: the orders the query can return
SelectTop(cs, limit) ==
    LET n == Min(limit, Cardinality(Rated(cs)))
    IN  {r \in [1..n -> Rated(cs)] :
            /\ \A i, j \in 1..n : i < j =>
                  /\ r[i] # r[j]
                  /\ Val(cs[r[i]].rating_score) >= Val(cs[r[j]].rating_score)
            /\ \A s \in Rated(cs) \ Range(r) : \A i \in 1..n :
                  Val(cs[r[i]].rating_score) >= Val(cs[s].rating_score)}

\* the response of the detail endpoint for one company
DetailRaised == [kind |-> "raised", indicators |-> <<>>]
DetailNoData == [kind |-> "nodata", indicators |-> <<>>]
DetailData(indicators) == [kind |-> "data", indicators |-> indicators]
\* a payload whose "ballar" is not a mapping: _store_detail raises
DetailMalformed == [kind |-> "malformed", indicators |-> <<>>]

\* if not code: code = name.lower().strip().replace(" ", "_")[:100]
CodeLimit == 100

LowerChar(ch) ==
    CASE ch = "A" -> "a" [] ch = "B" -> "b" [] ch = "S" -> "s" [] OTHER -> ch

RECURSIVE LStrip(_)
LStrip(s) == IF s # <<>> /\ Head(s) = WS THEN LStrip(Tail(s)) ELSE s

RECURSIVE RStrip(_)
RStrip(s) ==
    IF s # <<>> /\ s[Len(s)] = WS THEN RStrip(SubSeq(s, 1, Len(s) - 1)) ELSE s

\* a name as a sequence of characters
SynthCode_asis(name) == name
SynthCode(name) ==
    LET lowered == [i \in 1..Len(name) |-> LowerChar(name[i])]
        stripped == RStrip(LStrip(lowered))
        replaced == [i \in 1..Len(stripped) |->
                        IF stripped[i] = WS THEN "_" ELSE stripped[i]]
    IN  SubSeq(replaced, 1, Min(CodeLimit, Len(replaced)))

\* the code _ensure_criterion works with
CriterionCode(name, code) == IF code = <<>> THEN SynthCode(name) ELSE code

\* the id of the row with the code, 0 if there is none
\* (SELECT id FROM rating_criteria WHERE code = $1)
CriterionId(table, code) ==
    IF \E i \in 1..Len(table) : table[i].code = code
    THEN CHOOSE i \in 1..Len(table) : table[i].code = code
    ELSE 0

\* INSERT INTO rating_criteria ... ON CONFLICT (code) DO UPDATE SET
\* name_ru = COALESCE(EXCLUDED.name_ru, rating_criteria.name_ru) RETURNING id:
\* <<table, id>>
InsertCriterion_always(table, code, name) ==
    <<Append(table, [code |-> code, name_ru |-> name]), Len(table) + 1>>
InsertCriterion(table, code, name) ==
    LET id == CriterionId(table, code)
    IN  IF id = 0
        THEN <<Append(table, [code |-> code, name_ru |-> name]), Len(table) + 1>>
        ELSE <<[table EXCEPT ![id].name_ru = name], id>>

RECURSIVE EnsureAll(_, _)
\* _store_detail without interleaving: _ensure_criterion for every
\* indicator that has a name
EnsureAll(table, indicators) ==
    IF indicators = <<>> THEN table
    ELSE LET ind == Head(indicators)
             code == CriterionCode(ind.name, ind.key)
         IN  IF ind.name = <<>> THEN EnsureAll(table, Tail(indicators))
             ELSE IF CriterionId(table, code) # 0
             THEN EnsureAll(table, Tail(indicators))
             ELSE EnsureAll(InsertCriterion(table, code, ind.name)[1], Tail(indicators))

\* no run yet
DetailsIdle ==
    [pc |-> "idle", outcome |-> "none", stirs |-> <<>>, i |-> 0,
     tasks |-> <<>>, sem |-> 0, stats |-> ZeroCounts, log |-> NoLog,
     stored |-> {}, handled |-> <<>>]

\* the tasks of the gathered batch that hold the semaphore and have their
\* request out
InFlight(tasks) == {k \in 1..Len(tasks) : tasks[k] = "fetching"}

\* async with sem: the semaphore lets a task in
CanAcquire_always(sem) == TRUE
CanAcquire(sem) == sem > 0

\* scrape_details up to the batches: ledger row, selection, stats, semaphore.
\* rows = NULL stands for the selection query raising.
DetailsStart(stirs_arg, limit, rows) ==
    /\ details.pc = "idle"
    /\ \/ rows = NULL
       \/ rows # NULL /\ Val(rows) \in SelectTop(companies, limit)
    /\ LET started == [DetailsIdle EXCEPT !.log = start_scrape_log(@)]
       IN  details' =
             IF stirs_arg = NULL /\ rows = NULL
             THEN RunRaised(started, DbError)
             ELSE LET stirs == IF stirs_arg # NULL THEN Val(stirs_arg) ELSE Val(rows)
                  IN  [started EXCEPT !.pc = "loop", !.stirs = stirs,
                                      !.sem = reyting_concurrency,
                                      !.handled = [k \in 1..Len(stirs) |-> 0],
                                      !.stats = [@ EXCEPT !.found = Len(stirs)]]
    /\ UNCHANGED <<companies, tenders, pendingDeal, observed, lastOp, lastCount, today,
                   regionFilled, lastAgg, aggPc, readerSaw, scrape, listing,
                   rating_criteria, ensure, req>>

\* for i in range(0, len(stirs), 20): the tasks of the batch are created
\* and gathered; each waits for the semaphore
DetailsGather ==
    /\ details.pc = "loop"
    /\ details.i < Len(details.stirs)
    /\ details' = [details EXCEPT
                      !.pc = "gather",
                      !.tasks = [k \in 1..Min(DetailBatch, Len(details.stirs) - details.i)
                                    |-> "waiting"]]
    /\ UNCHANGED <<companies, tenders, pendingDeal, observed, lastOp, lastCount, today,
                   regionFilled, lastAgg, aggPc, readerSaw, scrape, listing,
                   rating_criteria, ensure, req>>

\* fetch_one: async with sem, then the request is issued
TaskAcquire(k) ==
    /\ details.pc = "gather"
    /\ k \in 1..Len(details.tasks)
    /\ details.tasks[k] = "waiting"
    /\ CanAcquire(details.sem)
    /\ details' = [details EXCEPT !.sem = @ - 1, !.tasks[k] = "fetching"]
    /\ UNCHANGED <<companies, tenders, pendingDeal, observed, lastOp, lastCount, today,
                   regionFilled, lastAgg, aggPc, readerSaw, scrape, listing,
                   rating_criteria, ensure, req>>

\* fetch_one: the request comes back; data is stored and counted as
\* inserted, no data and any exception are counted as failed (_store_detail
\* writes the snapshot before it reads the indicators, so a payload it
\* cannot read leaves the snapshot behind); the task then sleeps, still
\* inside the semaphore
TaskFetched(k, response) ==
    /\ details.pc = "gather"
    /\ k \in 1..Len(details.tasks)
    /\ details.tasks[k] = "fetching"
    /\ LET stir == details.stirs[details.i + k]
           ok == response.kind = "data"
       IN  /\ details' = [details EXCEPT
                            !.tasks[k] = "sleeping",
                            !.handled[details.i + k] = @ + 1,
                            !.stored = IF response.kind \in {"data", "malformed"}
                                       THEN @ \cup {stir} ELSE @,
                            !.stats = [@ EXCEPT
                                         !.inserted = IF ok THEN @ + 1 ELSE @,
                                         !.failed = IF ok THEN @ ELSE @ + 1]]
           /\ rating_criteria' = IF ok THEN EnsureAll(rating_criteria, response.indicators)
                                 ELSE rating_criteria
    /\ UNCHANGED <<companies, tenders, pendingDeal, observed, lastOp, lastCount, today,
                   regionFilled, lastAgg, aggPc, readerSaw, scrape, listing,
                   ensure, req>>

\* fetch_one: the delay is over, the semaphore is released
TaskRelease(k) ==
    /\ details.pc = "gather"
    /\ k \in 1..Len(details.tasks)
    /\ details.tasks[k] = "sleeping"
    /\ details' = [details EXCEPT !.sem = @ + 1, !.tasks[k] = "done"]
    /\ UNCHANGED <<companies, tenders, pendingDeal, observed, lastOp, lastCount, today,
                   regionFilled, lastAgg, aggPc, readerSaw, scrape, listing,
                   rating_criteria, ensure, req>>

\* gather returns when every task of the batch has returned
DetailsBatchDone ==
    /\ details.pc = "gather"
    /\ \A k \in 1..Len(details.tasks) : details.tasks[k] = "done"
    /\ details' = [details EXCEPT !.pc = "loop", !.i = @ + DetailBatch, !.tasks = <<>>]
    /\ UNCHANGED <<companies, tenders, pendingDeal, observed, lastOp, lastCount, today,
                   regionFilled, lastAgg, aggPc, readerSaw, scrape, listing,
                   rating_criteria, ensure, req>>

\* the batches are done: final ledger writes, return stats
DetailsFinish ==
    /\ details.pc = "loop"
    /\ details.i >= Len(details.stirs)
    /\ details' = RunReturned(details)
    /\ UNCHANGED <<companies, tenders, pendingDeal, observed, lastOp, lastCount, today,
                   regionFilled, lastAgg, aggPc, readerSaw, scrape, listing,
                   rating_criteria, ensure, req>>

----------------------------------------------------------------------------
(* _ensure_criterion called from detail tasks that run side by side: the   *)
(* calls interleave at their statements                                    *)

\* a detail task reaches an indicator: the call starts
EnsureCall(task, name, code) ==
    /\ IF task \in DOMAIN ensure THEN ensure[task].pc = "returned" ELSE TRUE
    /\ name # <<>>
    /\ ensure' = Put(ensure, task,
                     [pc |-> "select", code |-> CriterionCode(name, code),
                      name |-> name, key |-> code, id |-> 0])
    /\ UNCHANGED <<companies, tenders, pendingDeal, observed, lastOp, lastCount, today,
                   regionFilled, lastAgg, aggPc, readerSaw, scrape, listing, details,
                   rating_criteria, req>>

\* SELECT id FROM rating_criteria WHERE code = $1; if row: return row["id"]
EnsureSelect(task) ==
    /\ task \in DOMAIN ensure
    /\ ensure[task].pc = "select"
    /\ LET id == CriterionId(rating_criteria, ensure[task].code)
       IN  ensure' = [ensure EXCEPT ![task].pc = IF id # 0 THEN "returned" ELSE "insert",
                                    ![task].id = id]
    /\ UNCHANGED <<companies, tenders, pendingDeal, observed, lastOp, lastCount, today,
                   regionFilled, lastAgg, aggPc, readerSaw, scrape, listing, details,
                   rating_criteria, req>>

\* the category lookup and the INSERT ... ON CONFLICT ... RETURNING id
EnsureInsert(task) ==
    /\ task \in DOMAIN ensure
    /\ ensure[task].pc = "insert"
    /\ LET res == InsertCriterion(rating_criteria, ensure[task].code, ensure[task].name)
       IN  /\ rating_criteria' = res[1]
           /\ ensure' = [ensure EXCEPT ![task].pc = "returned", ![task].id = res[2]]
    /\ UNCHANGED <<companies, tenders, pendingDeal, observed, lastOp, lastCount, today,
                   regionFilled, lastAgg, aggPc, readerSaw, scrape, listing, details, req>>

----------------------------------------------------------------------------
(* Region resolution: EnrichmentPipeline.fill_missing_regions *)

\* config.region_normalization, in order: <<variant, canonical>>
region_normalization ==
    << <<"Toshkent", "Toshkent shahar_CYR">>,
       <<"Toshkent shahri", "Toshkent shahar_CYR">>,
       <<"Toshkent viloyati", "Toshkent viloyati_CYR">>,
       <<"Buxoro", "Buxoro_CYR">>,
       <<"Buxoro viloyati", "Buxoro_CYR">>,
       <<"Tashkent_CYR", "Toshkent shahar_CYR">> >>

\* config.district_to_region, in order: <<district, parent region>>
district_to_region == << <<"Sergeli", "Toshkent shahar_CYR">> >>

\* UPDATE <table> SET region = $1 WHERE region = $2
UpdateRegionWhereEquals(rows, canonical, variant) ==
    [k \in DOMAIN rows |->
        IF rows[k].region = Some(variant)
        THEN [rows[k] EXCEPT !.region = Some(canonical)] ELSE rows[k]]

RECURSIVE Layer1(_, _)
\* for variant, canonical in norm_map.items(): UPDATE ... (statement k onwards)
Layer1(rows, k) ==
    IF k > Len(region_normalization) THEN rows
    ELSE Layer1(UpdateRegionWhereEquals(rows, region_normalization[k][2],
                                        region_normalization[k][1]), k + 1)

RECURSIVE Layer1Count(_, _)
\* the sum of the row counts of the layer 1 statements on tender_results
Layer1Count(rows, k) ==
    IF k > Len(region_normalization) THEN 0
    ELSE Cardinality({r \in DOMAIN rows :
                         rows[r].region = Some(region_normalization[k][1])})
             + Layer1Count(UpdateRegionWhereEquals(rows, region_normalization[k][2],
                                                   region_normalization[k][1]), k + 1)

\* WHERE t.provider_stir = c.stir AND t.region IS NULL AND c.region IS NOT NULL
Layer2Applies_noguard(t, cs) ==
    /\ t.provider_stir # NULL
    /\ Val(t.provider_stir) \in DOMAIN cs
    /\ cs[Val(t.provider_stir)].region # NULL
Layer2Applies(t, cs) ==
    /\ t.provider_stir # NULL
    /\ Val(t.provider_stir) \in DOMAIN cs
    /\ t.region = NULL
    /\ cs[Val(t.provider_stir)].region # NULL

\* UPDATE tender_results t SET region = c.region FROM companies c WHERE ...
Layer2(ts, cs) ==
    [d \in DOMAIN ts |->
        IF Layer2Applies(ts[d], cs)
        THEN [ts[d] EXCEPT !.region = cs[Val(ts[d].provider_stir)].region]
        ELSE ts[d]]

Layer2Count(ts, cs) ==
    Cardinality({d \in DOMAIN ts : Layer2Applies(ts[d], cs)})

\* all_patterns[key] = value on a dict kept as a sequence of pairs: a key
\* already present keeps its position and takes the new value
DictSet(d, key, value) ==
    IF \E i \in 1..Len(d) : d[i][1] = key
    THEN [i \in 1..Len(d) |-> IF d[i][1] = key THEN <<key, value>> ELSE d[i]]
    ELSE Append(d, <<key, value>>)

RECURSIVE DictSetAll(_, _)
DictSetAll(d, pairs) ==
    IF pairs = <<>> THEN d
    ELSE DictSetAll(DictSet(d, Head(pairs)[1], Head(pairs)[2]), Tail(pairs))

\* norm_map.get(region, region)
NormGet(region) ==
    IF \E i \in 1..Len(region_normalization) : region_normalization[i][1] = region
    THEN region_normalization[
            CHOOSE i \in 1..Len(region_normalization) :
                region_normalization[i][1] = region][2]
    ELSE region

\* all_patterns: the region names, then {**norm_map, **district_to_region}
all_patterns ==
    DictSetAll(
        DictSetAll(<<>>, [i \in 1..Len(regions) |-> <<regions[i], NormGet(regions[i])>>]),
        DictSetAll(DictSetAll(<<>>, region_normalization), district_to_region))

\* WHERE region IS NULL AND (customer_name ILIKE $2 OR deal_description ILIKE $2)
Layer3Applies_noguard(t, pattern) ==
    ContainsCI(t.customer_name, pattern) \/ ContainsCI(t.deal_description, pattern)
Layer3Applies(t, pattern) ==
    /\ t.region = NULL
    /\ (ContainsCI(t.customer_name, pattern) \/ ContainsCI(t.deal_description, pattern))

\* UPDATE tender_results SET region = $1 WHERE ...
Layer3Update(ts, canonical, pattern) ==
    [d \in DOMAIN ts |->
        IF Layer3Applies(ts[d], pattern)
        THEN [ts[d] EXCEPT !.region = Some(canonical)] ELSE ts[d]]

RECURSIVE Layer3(_, _)
\* for pattern, canonical in all_patterns.items(): UPDATE ... (statement k onwards)
Layer3(ts, k) ==
    IF k > Len(all_patterns) THEN ts
    ELSE Layer3(Layer3Update(ts, all_patterns[k][2], all_patterns[k][1]), k + 1)

RECURSIVE Layer3Count(_, _)
Layer3Count(ts, k) ==
    IF k > Len(all_patterns) THEN 0
    ELSE Cardinality({d \in DOMAIN ts : Layer3Applies(ts[d], all_patterns[k][1])})
             + Layer3Count(Layer3Update(ts, all_patterns[k][2], all_patterns[k][1]), k + 1)

\* fill_missing_regions: the three layers in order; returns the rows updated
FillMissingRegions ==
    \E ts1 \in {Layer1(tenders, 1)} :
    \E cs1 \in {Layer1(companies, 1)} :
    \E ts2 \in {Layer2(ts1, cs1)} :
        /\ tenders' = Layer3(ts2, 1)
        /\ companies' = cs1
        /\ lastCount' = Layer1Count(tenders, 1) + Layer2Count(ts1, cs1) + Layer3Count(ts2, 1)
        /\ lastOp' = "fill_missing_regions"
        /\ regionFilled' = regionFilled \cup
                {d \in DOMAIN tenders : tenders[d].region = NULL /\ tenders'[d].region # NULL}
        /\ UNCHANGED <<ratingVars, scrape, aggPc, readerSaw, pendingDeal, observed, today, lastAgg, req>>

----------------------------------------------------------------------------
(* Classification: EnrichmentPipeline.classify_company_types *)

\* keyword_to_type (ASCII entries), in order: <<keyword, company type>>
keyword_to_type ==
    << <<"laboratoriya", "laboratory">>, <<"laboratory", "laboratory">>,
       <<"sinov", "laboratory">>,
       <<"baholash", "assessor">>, <<"baho", "assessor">>,
       <<"assessment", "assessor">>, <<"evaluation", "assessor">>,
       <<"konsalting", "consultant">>, <<"consulting", "consultant">>,
       <<"ekspertiza", "consultant">>, <<"ekspert", "consultant">>,
       <<"expertise", "consultant">>, <<"audit", "consultant">> >>

\* config.non_contractor_keywords (ASCII entries), in order
non_contractor_keywords ==
    <<"baholash", "baho", "sinov", "laboratoriya", "ekspertiza", "ekspert",
      "konsalting", "tekshirish", "nazorat", "sertifikat", "standart", "metrologiya",
      "consulting", "assessment", "laboratory", "evaluation", "inspection",
      "certification", "expertise", "audit", "monitoring">>

NonContractorTypes == {"consultant", "laboratory", "assessor", "other"}

\* type_kws = [kw for kw, ct in keyword_to_type.items() if ct == company_type]
type_kws(company_type) ==
    {keyword_to_type[i][1] : i \in {j \in 1..Len(keyword_to_type) :
                                        keyword_to_type[j][2] = company_type}}

\* remaining_kws = [kw for kw in keywords if kw not in keyword_to_type]
remaining_kws ==
    Range(non_contractor_keywords)
        \ {keyword_to_type[i][1] : i \in 1..Len(keyword_to_type)}

\* (c.canonical_name ILIKE $i OR c.raw_names::text ILIKE $i), OR-ed over kws
NameMatchesAny(c, kws) ==
    \E kw \in kws :
        \/ ContainsCI(c.canonical_name, kw)
        \/ \E i \in 1..Len(c.raw_names) : ContainsCI(c.raw_names[i], kw)

\* WHERE (...) AND company_type != '{company_type}'
SubtypeApplies(c, company_type) ==
    /\ NameMatchesAny(c, type_kws(company_type))
    /\ c.company_type # company_type

\* WHERE (...) AND company_type NOT IN ('consultant','laboratory','assessor','other')
OtherApplies(c) ==
    /\ NameMatchesAny(c, remaining_kws)
    /\ c.company_type \notin NonContractorTypes

\* WHERE rating_score IS NOT NULL AND company_type NOT IN (...)
\*   AND company_type != 'contractor'
ContractorApplies_noguard(c) ==
    /\ c.rating_score # NULL
    /\ c.company_type # "contractor"
\* a company with recorded wins is taken for a contractor as well
ContractorApplies_wins(c) ==
    /\ c.rating_score # NULL \/ c.total_wins > 0
    /\ c.company_type \notin NonContractorTypes
    /\ c.company_type # "contractor"
ContractorApplies(c) ==
    /\ c.rating_score # NULL
    /\ c.company_type \notin NonContractorTypes
    /\ c.company_type # "contractor"

\* the keys of the rows each statement's WHERE clause selects
SubtypeRows(cs, company_type) ==
    {s \in DOMAIN cs : SubtypeApplies(cs[s], company_type)}
OtherRows(cs) == {s \in DOMAIN cs : OtherApplies(cs[s])}
ContractorRows(cs) == {s \in DOMAIN cs : ContractorApplies(cs[s])}

\* UPDATE companies SET company_type = label WHERE <the row is one of keys>
SetType(cs, keys, label) ==
    [s \in DOMAIN cs |->
        IF s \in keys THEN [cs[s] EXCEPT !.company_type = label] ELSE cs[s]]

\* the bulk update of one non-contractor subtype
SubtypePass(cs, company_type) ==
    SetType(cs, SubtypeRows(cs, company_type), company_type)

\* classify_company_types: the five UPDATE statements in order; returns
\* total_classified, the sum of their row counts
ClassifyCompanyTypes ==
    \E c1 \in {SubtypePass(companies, "laboratory")} :
    \E c2 \in {SubtypePass(c1, "assessor")} :
    \E c3 \in {SubtypePass(c2, "consultant")} :
    \E c4 \in {SetType(c3, OtherRows(c3), "other")} :
        /\ companies' = SetType(c4, ContractorRows(c4), "contractor")
        /\ lastCount' = Cardinality(SubtypeRows(companies, "laboratory"))
                        + Cardinality(SubtypeRows(c1, "assessor"))
                        + Cardinality(SubtypeRows(c2, "consultant"))
                        + Cardinality(OtherRows(c3))
                        + Cardinality(ContractorRows(c4))
        /\ lastOp' = "classify_company_types"
        /\ UNCHANGED <<ratingVars, scrape, aggPc, readerSaw, tenders, pendingDeal, observed, today, lastAgg, regionFilled, req>>

----------------------------------------------------------------------------
(* Aggregation: EnrichmentPipeline.aggregate_tender_stats                  *)
(* Dates are day numbers and a calendar month is DaysPerMonth days.        *)
(* avg_discount_pct, a percentage rounded to two decimals, is held as the  *)
(* integer number of hundredths of a percent.                              *)

DaysPerMonth == 30

\* CURRENT_DATE - make_interval(months => $1)
WindowStart(day, months) == day - months * DaysPerMonth

\* the rows of one GROUP BY provider_stir group:
\* WHERE provider_stir IS NOT NULL AND deal_date >= CURRENT_DATE - ...
AggGroup(ts, stir, day, months) ==
    {d \in DOMAIN ts :
        /\ ts[d].provider_stir = Some(stir)
        /\ ts[d].deal_date # NULL
        /\ Val(ts[d].deal_date) >= WindowStart(day, months)}

RECURSIVE SumDealCost(_, _)
\* COALESCE(SUM(deal_cost), 0)
SumDealCost(ts, D) ==
    IF D = {} THEN 0
    ELSE LET d == CHOOSE x \in D : TRUE
         IN  ts[d].deal_cost + SumDealCost(ts, D \ {d})

RECURSIVE ProdStartCost(_, _)
ProdStartCost(ts, D) ==
    IF D = {} THEN 1
    ELSE LET d == CHOOSE x \in D : TRUE
         IN  ts[d].start_cost * ProdStartCost(ts, D \ {d})

RECURSIVE SumDiscount(_, _, _)
\* the sum over D of (start_cost - deal_cost) / start_cost * 100, as the
\* numerator of a fraction over ProdStartCost(ts, P)
SumDiscount(ts, P, D) ==
    IF D = {} THEN 0
    ELSE LET d == CHOOSE x \in D : TRUE
         IN  (ts[d].start_cost - ts[d].deal_cost) * 100 * ProdStartCost(ts, P \ {d})
             + SumDiscount(ts, P, D \ {d})

\* ROUND(num / den, 0) for den > 0: half rounds away from zero
RoundDiv(num, den) ==
    IF num >= 0 THEN (2 * num + den) \div (2 * den)
    ELSE -((2 * (-num) + den) \div (2 * den))

\* rows without a positive start_cost counted as a discount of 0%
AvgDiscount_zero_counts(ts, G) ==
    LET P == {d \in G : ts[d].start_cost > 0}
    IN  Some(RoundDiv(100 * SumDiscount(ts, P, P), ProdStartCost(ts, P) * Cardinality(G)))

\* ROUND(AVG(CASE WHEN start_cost > 0 THEN ... END), 2): rows whose
\* start_cost is not positive yield NULL, which AVG skips
AvgDiscount(ts, G) ==
    LET P == {d \in G : ts[d].start_cost > 0}
    IN  IF P = {} THEN NULL
        ELSE Some(RoundDiv(100 * SumDiscount(ts, P, P),
                           ProdStartCost(ts, P) * Cardinality(P)))

\* MIN(deal_date), MAX(deal_date)
MinDate(ts, G) == CHOOSE x \in {Val(ts[d].deal_date) : d \in G} :
                     \A d \in G : x <= Val(ts[d].deal_date)
MaxDate(ts, G) == CHOOSE x \in {Val(ts[d].deal_date) : d \in G} :
                     \A d \in G : x >= Val(ts[d].deal_date)

\* the fields aggregate_tender_stats writes
AggFields(c) ==
    <<c.total_wins, c.total_contract_value, c.avg_discount_pct,
      c.first_tender_date, c.last_tender_date>>

\* step 1: UPDATE companies SET ... = 0 / NULL
\*         WHERE total_wins > 0 OR total_contract_value > 0
ResetStats(cs) ==
    [s \in DOMAIN cs |->
        IF cs[s].total_wins > 0 \/ cs[s].total_contract_value > 0
        THEN [cs[s] EXCEPT !.total_wins = 0, !.total_contract_value = 0,
                           !.avg_discount_pct = NULL,
                           !.first_tender_date = NULL, !.last_tender_date = NULL]
        ELSE cs[s]]

\* step 2: UPDATE companies c SET ... FROM (SELECT ... GROUP BY provider_stir) agg
\*         WHERE c.stir = agg.provider_stir
RecomputeStats(cs, ts, day, months) ==
    [s \in DOMAIN cs |->
        LET G == AggGroup(ts, s, day, months)
        IN  IF G = {} THEN cs[s]
            ELSE [cs[s] EXCEPT !.total_wins = Cardinality(G),
                               !.total_contract_value = SumDealCost(ts, G),
                               !.avg_discount_pct = AvgDiscount(ts, G),
                               !.first_tender_date = Some(MinDate(ts, G)),
                               !.last_tender_date = Some(MaxDate(ts, G))]]

\* an incremental accumulator: no reset, the window's figures are added
aggregate_tender_stats_accumulate(cs, ts, day, months) ==
    [s \in DOMAIN cs |->
        LET G == AggGroup(ts, s, day, months)
        IN  IF G = {} THEN cs[s]
            ELSE [cs[s] EXCEPT !.total_wins = @ + Cardinality(G),
                               !.total_contract_value = @ + SumDealCost(ts, G),
                               !.avg_discount_pct = AvgDiscount(ts, G),
                               !.first_tender_date = Some(MinDate(ts, G)),
                               !.last_tender_date = Some(MaxDate(ts, G))]]

\* the companies table after the two statements
aggregate_tender_stats(cs, ts, day, months) ==
    RecomputeStats(ResetStats(cs), ts, day, months)

\* the row count of step 2, which the method returns
AggregatedCount(cs, ts, day, months) ==
    Cardinality({s \in DOMAIN cs : AggGroup(ts, s, day, months) # {}})

AggregateTenderStats(lookback_months) ==
    /\ companies' = aggregate_tender_stats(companies, tenders, today, lookback_months)
    /\ lastCount' = AggregatedCount(companies, tenders, today, lookback_months)
    /\ lastOp' = "aggregate_tender_stats"
    /\ lastAgg' = [months |-> lookback_months, day |-> today,
                   streak |-> IF /\ lastOp = "aggregate_tender_stats"
                                 /\ lastAgg.months = lookback_months
                                 /\ lastAgg.day = today
                              THEN 2 ELSE 1]
    /\ UNCHANGED <<ratingVars, scrape, aggPc, readerSaw, tenders, pendingDeal, observed, today, regionFilled, req>>

\* aggregate_tender_stats statement by statement, each committed on its own
\* (pool.execute outside a transaction): step 1
AggregateReset(lookback_months) ==
    /\ aggPc = <<>>
    /\ companies' = ResetStats(companies)
    /\ aggPc' = <<[months |-> lookback_months,
                   before |-> [s \in DOMAIN companies |-> AggFields(companies[s])]]>>
    /\ UNCHANGED <<ratingVars, scrape, tenders, pendingDeal, observed, lastOp, lastCount, today,
                   regionFilled, lastAgg, readerSaw, req>>

\* step 2 and the return of the count
AggregateRecompute ==
    /\ aggPc # <<>>
    /\ companies' = RecomputeStats(companies, tenders, today, aggPc[1].months)
    /\ lastCount' = AggregatedCount(companies, tenders, today, aggPc[1].months)
    /\ lastOp' = "aggregate_tender_stats"
    /\ lastAgg' = [months |-> aggPc[1].months, day |-> today,
                   streak |-> IF /\ lastOp = "aggregate_tender_stats"
                                 /\ lastAgg.months = aggPc[1].months
                                 /\ lastAgg.day = today
                              THEN 2 ELSE 1]
    /\ aggPc' = <<>>
    /\ UNCHANGED <<ratingVars, scrape, tenders, pendingDeal, observed, today, regionFilled, readerSaw, req>>

\* company_profile: SELECT ... FROM companies WHERE stir = $1 on another
\* connection; running, before and in_window record the circumstances
ReadCompanyProfile(stir) ==
    /\ stir \in DOMAIN companies
    /\ readerSaw' =
          <<[stir |-> stir,
             info |-> AggFields(companies[stir]),
             running |-> aggPc # <<>>,
             before |-> IF aggPc # <<>> /\ stir \in DOMAIN aggPc[1].before
                        THEN aggPc[1].before[stir] ELSE AggFields(companies[stir]),
             in_window |-> /\ aggPc # <<>>
                           /\ AggGroup(tenders, stir, today, aggPc[1].months) # {}]>>
    /\ UNCHANGED <<ratingVars, scrape, companies, tenders, pendingDeal, observed, lastOp, lastCount,
                   today, regionFilled, lastAgg, aggPc, req>>

\* the rows of one GROUP BY provider_stir group of extract_active_regions:
\* WHERE provider_stir IS NOT NULL (no condition on deal_date)
RegionGroup(ts, stir) == {d \in DOMAIN ts : ts[d].provider_stir = Some(stir)}

\* COALESCE(jsonb_agg(DISTINCT region) FILTER (WHERE region IS NOT NULL), '[]')
DistinctRegions(ts, G) == {Val(ts[d].region) : d \in {x \in G : ts[x].region # NULL}}

\* UPDATE companies c SET active_regions = agg.regions FROM (...) agg
\*   WHERE c.stir = agg.provider_stir
extract_active_regions(cs, ts) ==
    [s \in DOMAIN cs |->
        IF RegionGroup(ts, s) = {} THEN cs[s]
        ELSE [cs[s] EXCEPT !.active_regions = DistinctRegions(ts, RegionGroup(ts, s))]]

ExtractActiveRegions ==
    /\ companies' = extract_active_regions(companies, tenders)
    /\ lastCount' = Cardinality({s \in DOMAIN companies : RegionGroup(tenders, s) # {}})
    /\ lastOp' = "extract_active_regions"
    /\ UNCHANGED <<ratingVars, scrape, aggPc, readerSaw, tenders, pendingDeal, observed, today, regionFilled, lastAgg, req>>

\* UPDATE companies SET source = 'both' WHERE rating_fetched_at IS NOT NULL
\*   AND total_wins > 0 AND source != 'both'
SourceApplies(c) ==
    /\ c.rating_fetched_at # NULL
    /\ c.total_wins > 0
    /\ c.source # NULL
    /\ c.source # Some("both")

update_company_source(cs) ==
    [s \in DOMAIN cs |->
        IF SourceApplies(cs[s]) THEN [cs[s] EXCEPT !.source = Some("both")] ELSE cs[s]]

UpdateCompanySource ==
    /\ companies' = update_company_source(companies)
    /\ lastCount' = Cardinality({s \in DOMAIN companies : SourceApplies(companies[s])})
    /\ lastOp' = "update_company_source"
    /\ UNCHANGED <<ratingVars, scrape, aggPc, readerSaw, tenders, pendingDeal, observed, today, regionFilled,
                   lastAgg, req>>

\* the calendar moves on by a month
AdvanceDay(MaxDay) ==
    /\ today + DaysPerMonth <= MaxDay
    /\ today' = today + DaysPerMonth
    /\ UNCHANGED <<ratingVars, scrape, aggPc, readerSaw, companies, tenders, pendingDeal, observed, lastOp, lastCount,
                   regionFilled, lastAgg, req>>

----------------------------------------------------------------------------
(* Retrying fetch client: BaseScraper._request *)

\* delay = 1.0
BaseDelay == 1

\* largest attempt ceiling (the retries argument) a call is made with
MaxRetries == 3

ReqIdle == [pc |-> "idle", retries |-> 0, attempt |-> 0, delay |-> 0,
            sleeps |-> <<>>, outcomes |-> <<>>]

Status(code) == [kind |-> "status", code |-> code]
Raises(exc) == [kind |-> exc, code |-> 0]

\* what one self.client.request(...) can produce: a response with a status
\* code, or an exception (OtherError: any exception the except clause does
\* not name)
Outcomes ==
    {Status(c) : c \in {200, 404, 403, 429, 500, 503, 504}}
    \cup {Raises("ConnectError"), Raises("ReadTimeout"), Raises("OtherError")}

\* resp.status_code in (429, 500, 502, 503) -> raise httpx.HTTPStatusError
ExplicitRetryStatus(o) == o.kind = "status" /\ o.code \in {429, 500, 502, 503}

\* resp.raise_for_status(): HTTPStatusError for a 4xx or 5xx response
RaiseForStatus(o) == o.kind = "status" /\ o.code >= 400 /\ o.code <= 599

\* except (httpx.HTTPStatusError, httpx.ConnectError, httpx.ReadTimeout)
Caught(o) ==
    \/ ExplicitRetryStatus(o)
    \/ RaiseForStatus(o)
    \/ o.kind \in {"ConnectError", "ReadTimeout"}

\* if attempt == retries: raise
Exhausted_never(attempt, retries) == FALSE
Exhausted(attempt, retries) == attempt = retries

\* delay *= 2
NextDelay_constant(delay) == delay
NextDelay(delay) == delay * 2

\* _request is called: delay = 1.0, first iteration of the for loop
RequestCall(retries) ==
    /\ req.pc = "idle"
    /\ req' = [pc |-> "attempt", retries |-> retries, attempt |-> 1,
               delay |-> BaseDelay, sleeps |-> <<>>, outcomes |-> <<>>]
    /\ UNCHANGED <<ratingVars, scrape, aggPc, readerSaw, companies, tenders, pendingDeal, observed, lastOp, lastCount, today, lastAgg, regionFilled>>

\* one iteration of the loop body up to the sleep: the request, the status
\* checks and the except clause
RequestAttempt(o) ==
    /\ req.pc = "attempt"
    /\ req' = [req EXCEPT
                 !.outcomes = Append(@, o),
                 !.pc = IF Caught(o)
                        THEN (IF Exhausted(req.attempt, req.retries)
                              THEN "raised" ELSE "sleeping")
                        ELSE IF o.kind = "status" THEN "returned" ELSE "raised"]
    /\ UNCHANGED <<ratingVars, scrape, aggPc, readerSaw, companies, tenders, pendingDeal, observed, lastOp, lastCount, today, lastAgg, regionFilled>>

\* await asyncio.sleep(delay); delay *= 2; next iteration, or the end of the
\* loop (raise RuntimeError("unreachable"))
RequestSleep ==
    /\ req.pc = "sleeping"
    /\ req' = [req EXCEPT
                 !.sleeps = Append(@, req.delay),
                 !.delay = NextDelay(req.delay),
                 !.attempt = IF req.attempt < req.retries THEN @ + 1 ELSE @,
                 !.pc = IF req.attempt < req.retries THEN "attempt" ELSE "raised"]
    /\ UNCHANGED <<ratingVars, scrape, aggPc, readerSaw, companies, tenders, pendingDeal, observed, lastOp, lastCount, today, lastAgg, regionFilled>>

\* the caller has the response or the exception; the client is free again
RequestDone ==
    /\ req.pc \in {"returned", "raised"}
    /\ req' = ReqIdle
    /\ UNCHANGED <<ratingVars, scrape, aggPc, readerSaw, companies, tenders, pendingDeal, observed, lastOp, lastCount, today, lastAgg, regionFilled>>

----------------------------------------------------------------------------
(* Harvest specification: both extractors write the fact base; their       *)
(* statements interleave at statement granularity.                         *)

Today0 == 20

NameOOO == <<"OOO", WS, "GAMMA", WS, "QURILISH">>
NameMCHJ == <<"GAMMA", WS, "QURILISH", WS, "MCHJ">>
NameQuoted == <<"'", "gamma", "'", WS, WS, "qurilish", WS, "llc">>
NameInvest == <<"GAMMA", WS, "QURILISH", WS, "INVEST">>

StirA == "305551234"
StirLong == "1234567890123"

HarvestNames == {NameOOO, NameMCHJ, NameQuoted}

HarvestDeals ==
    {Deal(Some(1), StirA, name, cust, <<"qurilish">>, Some(100), Some(50), Some(Today0))
        : name \in HarvestNames, cust \in {<<"Toshkent">>, <<"MAKTAB">>}}
    \cup {Deal(Some(1), inn, NameOOO, <<"Toshkent">>, <<"qurilish">>,
               Some(100), Some(50), Some(Today0)) : inn \in {StirLong, ""}}
    \cup {Deal(NULL, StirA, NameInvest, <<"MAKTAB">>, <<"qurilish">>, NULL, NULL, NULL)}

Listing(inn, name, rating, sumbal, viloyat_name) ==
    [inn |-> inn, name |-> name, rating |-> rating, sumbal |-> sumbal,
     viloyat_name |-> viloyat_name]

HarvestListings ==
    {Listing(StirA, name, Some("A"), Some(80), region)
        : name \in HarvestNames \cup {NameInvest},
          region \in {NULL, Some("Toshkent shahri")}}
    \cup {Listing(inn, NameOOO, Some("A"), NULL, Some("Toshkent shahri"))
            : inn \in {StirLong, ""}}

Init ==
    /\ companies = <<>>
    /\ tenders = <<>>
    /\ pendingDeal = <<>>
    /\ observed = <<>>
    /\ lastOp = "init"
    /\ lastCount = 0
    /\ today = Today0
    /\ lastAgg = [months |-> 0, day |-> 0, streak |-> 0]
    /\ aggPc = <<>>
    /\ readerSaw = <<>>
    /\ scrape = ScrapeIdle
    /\ listing = ListingIdle
    /\ details = DetailsIdle
    /\ rating_criteria = <<>>
    /\ ensure = <<>>
    /\ regionFilled = {}
    /\ req = ReqIdle

Next ==
    \/ \E deal \in HarvestDeals : StoreDealUpsert(deal)
    \/ StoreDealInsert
    \/ \E company \in HarvestListings : StoreListingCompany(company)

Spec == Init /\ [][Next]_vars

----------------------------------------------------------------------------
(* C1: for every company row, the raw-name array holds exactly the raw     *)
(* names ever handed to a merge for that identifier (none lost), and no    *)
(* name occurs twice in it (none duplicated).                              *)
C1_RawNamesStrictUnion ==
    \A s \in DOMAIN companies :
        /\ s \in DOMAIN observed
        /\ Range(companies[s].raw_names) = observed[s]
        /\ Len(companies[s].raw_names) = Cardinality(observed[s])

\* a row merged from three different raw names, by both extractors
C1_Witness ==
    /\ StirA \in DOMAIN companies
    /\ Len(companies[StirA].raw_names) >= 3
    /\ companies[StirA].source = Some("both")

(* C2: with the statements of the two writers interleaved in every order,  *)
(* no statement loses an update: every step keeps all names already in a   *)
(* row, and the row holds every name merged so far, also while a           *)
(* _store_deal call is between its statements.                             *)
C2_NoLostUpdate ==
    [][\A s \in DOMAIN observed' :
          /\ s \in DOMAIN companies'
          /\ observed'[s] \subseteq Range(companies'[s].raw_names)
          /\ s \in DOMAIN companies =>
                Range(companies[s].raw_names) \subseteq Range(companies'[s].raw_names)]_vars

\* the ratings writer merged a second name while a _store_deal call of the
\* deals writer for the same identifier was between its two statements
C2_Witness ==
    /\ pendingDeal # <<>>
    /\ pendingDeal[1].provider_inn = StirA
    /\ lastOp = "store_listing"
    /\ StirA \in DOMAIN companies
    /\ pendingDeal[1].provider_name \in Range(companies[StirA].raw_names)
    /\ Len(companies[StirA].raw_names) >= 2
    /\ companies[StirA].source = Some("both")

----------------------------------------------------------------------------
(* Fetch client specification: calls of _request with every attempt        *)
(* ceiling up to MaxRetries against every sequence of outcomes.            *)

NextRequest ==
    \/ \E retries \in 1..MaxRetries : RequestCall(retries)
    \/ \E o \in Outcomes : RequestAttempt(o)
    \/ RequestSleep
    \/ RequestDone

SpecRequest == Init /\ [][NextRequest]_vars

RECURSIVE Pow2(_)
Pow2(n) == IF n <= 0 THEN 1 ELSE 2 * Pow2(n - 1)

\* a 4xx response other than 429
ClientError(o) == o.kind = "status" /\ o.code >= 400 /\ o.code <= 499 /\ o.code # 429

\* a 429 or 5xx response
FailingResponse(o) == o.kind = "status" /\ (o.code = 429 \/ (o.code >= 500 /\ o.code <= 599))

\* the retryable conditions: 429, 5xx, connection failure, read timeout
RetryableCondition(o) == FailingResponse(o) \/ o.kind \in {"ConnectError", "ReadTimeout"}

(* C3: a 4xx response other than 429 ends the call at once: it is the last *)
(* attempt, no sleep follows it and the error is raised to the caller (for *)
(* a first response: exactly one attempt and zero sleeps), whatever the    *)
(* ceiling.                                                                *)
C3_ClientErrorFailsFast ==
    \A i \in 1..Len(req.outcomes) :
        ClientError(req.outcomes[i]) =>
            /\ i = Len(req.outcomes)
            /\ req.pc = "raised"
            /\ Len(req.sleeps) = i - 1

\* the code retried a client error: 404 on attempt 1, slept, attempt 2
C3_Witness ==
    /\ Len(req.outcomes) >= 2
    /\ req.outcomes[1] = Status(404)
    /\ req.sleeps # <<>>

(* C4 as stated: after N failing responses (429/5xx) and one success the   *)
(* call made N+1 attempts and returned, and the delay slept before attempt *)
(* k (k = 2..N+1) was BaseDelay * 2^(k-1).                                 *)
C4_DelayBeforeAttemptK ==
    (/\ req.pc = "returned"
     /\ \A i \in 1..(Len(req.outcomes) - 1) : FailingResponse(req.outcomes[i]))
    => /\ Len(req.sleeps) = Len(req.outcomes) - 1
       /\ \A k \in 2..Len(req.outcomes) : req.sleeps[k - 1] = BaseDelay * Pow2(k - 1)

(* C4 amended: after N failing responses (429/5xx) and one success the     *)
(* call made N+1 attempts and returned the successful response, and the    *)
(* delay slept after the k-th failed attempt, that is before attempt k+1,  *)
(* was BaseDelay * 2^(k-1): 1, 2, 4, ... seconds; nothing is slept before  *)
(* attempt 1.                                                              *)
C4_BackoffArithmetic ==
    (/\ req.pc = "returned"
     /\ \A i \in 1..(Len(req.outcomes) - 1) : FailingResponse(req.outcomes[i]))
    => /\ Len(req.sleeps) = Len(req.outcomes) - 1
       /\ req.attempt = Len(req.outcomes)
       /\ req.outcomes[Len(req.outcomes)].kind = "status"
       /\ ~Caught(req.outcomes[Len(req.outcomes)])
       /\ \A k \in 1..Len(req.sleeps) : req.sleeps[k] = BaseDelay * Pow2(k - 1)

\* two failing responses (a 429 and a 5xx), then success on attempt 3
C4_Witness ==
    /\ req.pc = "returned"
    /\ Len(req.outcomes) = 3
    /\ req.outcomes[1] = Status(429)
    /\ req.outcomes[2] = Status(503)
    /\ req.sleeps = <<1, 2>>

----------------------------------------------------------------------------
(* Region specification: deals and listing rows that differ in the texts   *)
(* and regions they carry, harvested and enriched in any order.            *)

RegionDeals ==
    {Deal(Some(1), StirA, NameOOO, t[1], t[2], Some(100), Some(50), Some(Today0))
        : t \in {<< <<"MAKTAB">>, <<"qurilish">> >>,
                 << <<"Toshkent">>, <<"qurilish">> >>,
                 << <<"Sergeli">>, <<"Buxoro">> >>}}
    \cup {Deal(Some(2), StirA, NameOOO, <<"MAKTAB">>, <<"qurilish">>,
               Some(100), Some(50), Some(Today0)),
          Deal(Some(2), "", NameOOO, <<"Sergeli">>, <<"qurilish">>,
               Some(100), Some(50), Some(Today0))}

RegionListings ==
    {Listing(StirA, NameOOO, Some("A"), Some(80), region)
        : region \in {NULL, Some("Toshkent shahri"), Some("Buxoro viloyati")}}

NextRegion ==
    \/ \E deal \in RegionDeals : StoreDealUpsert(deal)
    \/ StoreDealInsert
    \/ \E company \in RegionListings : StoreListingCompany(company)
    \/ FillMissingRegions

SpecRegion == Init /\ [][NextRegion]_vars

(* C6: the tender upsert of _store_deal never changes or clears the region *)
(* of a stored deal whose region is non-null.                              *)
C6_StoreDealKeepsRegion ==
    [][StoreDealInsert =>
         \A d \in DOMAIN tenders :
             tenders[d].region # NULL => tenders'[d].region = tenders[d].region]_vars

\* a deal whose null region an enrichment run had filled was harvested
\* again with the same payload: its region is null again
C6_Witness ==
    /\ lastOp = "store_deal"
    /\ 1 \in regionFilled
    /\ tenders[1].region = NULL
    /\ tenders[1].customer_name = <<"MAKTAB">>
    /\ tenders[1].provider_stir = Some(StirA)
    /\ companies[StirA].region = Some("Toshkent shahar_CYR")

(* C7 as stated: a run of fill_missing_regions leaves every non-null deal  *)
(* region exactly as it was.                                               *)
C7_FillLeavesRegionUntouched ==
    [][FillMissingRegions =>
         \A d \in DOMAIN tenders :
             tenders[d].region # NULL => tenders'[d].region = tenders[d].region]_vars

(* C7 amended: a run of fill_missing_regions leaves a non-null deal region *)
(* non-null and changes it only to its canonical spelling under            *)
(* region_normalization (layer 1); a value that is not a listed variant    *)
(* stays exactly as it was, whatever layers 2 and 3 would match.           *)
C7_FillOnlyCanonicalizes ==
    [][FillMissingRegions =>
         \A d \in DOMAIN tenders :
             tenders[d].region # NULL =>
                 tenders'[d].region = Some(NormGet(Val(tenders[d].region)))]_vars

\* after a run: a deal keeps (in canonical spelling) the region of its own
\* text although its provider's company is in another region and its
\* customer text names a district of that other region
C7_Witness ==
    /\ lastOp = "fill_missing_regions"
    /\ \E d \in DOMAIN tenders :
          /\ tenders[d].region = Some("Buxoro_CYR")
          /\ tenders[d].customer_name = <<"Sergeli">>
          /\ tenders[d].deal_description = <<"Buxoro">>
          /\ tenders[d].provider_stir = Some(StirA)
          /\ companies[StirA].region = Some("Toshkent shahar_CYR")

----------------------------------------------------------------------------
(* Classification specification: companies whose names carry keywords of   *)
(* no, one or two non-contractor subtypes, with and without a rating.      *)

StirB == "200000002"

NameLabAssessor == <<"BAHOLASH", WS, "LABORATORIYA">>
NameNazorat == <<"QURILISH", WS, "NAZORAT">>
NameEkspertiza == <<"EKSPERTIZA", WS, "MCHJ">>

ClassifyListings ==
    {Listing(StirA, name, Some("A"), score, NULL)
        : name \in {NameOOO, NameLabAssessor}, score \in {NULL, Some(80)}}
    \cup {Listing(StirB, name, Some("B"), score, NULL)
            : name \in {NameNazorat, NameEkspertiza}, score \in {NULL, Some(60)}}

ClassifyDeals ==
    {Deal(Some(1), StirB, name, <<"MAKTAB">>, <<"qurilish">>,
          Some(100), Some(50), Some(Today0)) : name \in {NameNazorat}}

NextClassify ==
    \/ \E company \in ClassifyListings : StoreListingCompany(company)
    \/ \E deal \in ClassifyDeals : StoreDealUpsert(deal)
    \/ StoreDealInsert
    \/ ClassifyCompanyTypes

SpecClassify == Init /\ [][NextClassify]_vars

(* C8: a run of classify_company_types that directly follows another run   *)
(* (nothing was written in between) updates no row - it returns 0 - and    *)
(* leaves every company's label as it was.                                 *)
C8_ClassifyIdempotent ==
    [][(ClassifyCompanyTypes /\ lastOp = "classify_company_types") =>
          /\ lastCount' = 0
          /\ \A s \in DOMAIN companies :
                companies'[s].company_type = companies[s].company_type]_vars

\* the state a run leaves for the company named with a laboratory and an
\* assessor keyword: two rows reported, label assessor; the next run starts
\* here and the laboratory statement matches again
C8_Witness ==
    /\ lastOp = "classify_company_types"
    /\ lastCount = 2
    /\ DOMAIN companies = {StirA}
    /\ companies[StirA].raw_names = <<NameLabAssessor>>
    /\ companies[StirA].company_type = "assessor"
    /\ companies[StirA].rating_score = NULL

(* C9: no step - a classification run, a listing row with rating data, a   *)
(* harvested deal - takes a company out of the non-contractor labels       *)
(* {laboratory, assessor, consultant, other}: it never becomes contractor  *)
(* or unknown again.                                                       *)
C9_NonContractorStays ==
    [][\A s \in DOMAIN companies :
          companies[s].company_type \in NonContractorTypes =>
              companies'[s].company_type \in NonContractorTypes]_vars

\* a run over a company that already carried the label other and has a
\* rating score: the run changed nothing
C9_Witness ==
    /\ lastOp = "classify_company_types"
    /\ lastCount = 0
    /\ StirB \in DOMAIN companies
    /\ companies[StirB].company_type = "other"
    /\ companies[StirB].rating_score # NULL

----------------------------------------------------------------------------
(* Aggregation specification: two deals of one provider a month apart, one *)
(* of them with or without a starting price, a deal without a provider,    *)
(* lookbacks of one and two months, and a calendar that moves.             *)

LastDay == 80
Lookbacks == {1, 2}

AggDeals ==
    {Deal(Some(1), StirA, NameOOO, <<"Toshkent">>, <<"qurilish">>,
          Some(100), Some(cost), Some(Today0)) : cost \in {50, 120}}
    \cup {Deal(Some(2), StirA, NameOOO, <<"MAKTAB">>, <<"qurilish">>,
               start, Some(200), Some(Today0 + DaysPerMonth)) : start \in {NULL, Some(300)}}
    \cup {Deal(Some(3), "", NameOOO, <<"MAKTAB">>, <<"qurilish">>,
               Some(100), Some(90), Some(Today0))}

AggListings == {Listing(StirB, NameMCHJ, Some("B"), Some(60), NULL)}

NextAgg ==
    \/ \E deal \in AggDeals : StoreDealUpsert(deal)
    \/ StoreDealInsert
    \/ \E company \in AggListings : StoreListingCompany(company)
    \/ \E lookback_months \in Lookbacks : AggregateTenderStats(lookback_months)
    \/ ExtractActiveRegions
    \/ AdvanceDay(LastDay)

SpecAgg == Init /\ [][NextAgg]_vars

(* C10: a run of aggregate_tender_stats that directly follows another run  *)
(* with the same lookback on the same day (so no deal record changed in    *)
(* between) leaves total wins, total contract value, average discount and  *)
(* first and last tender date of every company as the first run left them. *)
C10_AggregationIdempotent ==
    [][\A lookback_months \in Lookbacks :
          (/\ AggregateTenderStats(lookback_months)
           /\ lastOp = "aggregate_tender_stats"
           /\ lastAgg.months = lookback_months
           /\ lastAgg.day = today)
          => \A s \in DOMAIN companies :
                AggFields(companies'[s]) = AggFields(companies[s])]_vars

\* the second of two runs in a row has completed over a provider with two
\* deals in the window (discounts 50% and 33.33..%) and one outside any group
C10_Witness ==
    /\ lastOp = "aggregate_tender_stats"
    /\ lastAgg.streak = 2
    /\ StirA \in DOMAIN companies
    /\ AggFields(companies[StirA])
          = <<2, 250, Some(4167), Some(Today0), Some(Today0 + DaysPerMonth)>>
    /\ 3 \in DOMAIN tenders

\* the aggregate fields a company must hold if they are a function of the
\* deals of the window alone
WindowStats(ts, stir, day, months) ==
    LET G == AggGroup(ts, stir, day, months)
    IN  IF G = {} THEN <<0, 0, NULL, NULL, NULL>>
        ELSE <<Cardinality(G), SumDealCost(ts, G), AvgDiscount(ts, G),
               Some(MinDate(ts, G)), Some(MaxDate(ts, G))>>

\* the regions of the deals of the window
WindowRegions(ts, stir, day, months) ==
    DistinctRegions(ts, AggGroup(ts, stir, day, months))

(* C11: when extract_active_regions completes directly after                *)
(* aggregate_tender_stats, as in an enrichment run, every company's total   *)
(* wins, total value, average discount, first and last date and active      *)
(* regions are those computed from the deals inside the lookback window     *)
(* alone, whatever the company held before.                                 *)
C11_AggregatesPureOfWindow ==
    [][(/\ ExtractActiveRegions
        /\ lastOp = "aggregate_tender_stats"
        /\ lastAgg.day = today)
       => \A s \in DOMAIN companies :
            /\ AggFields(companies'[s])
                  = WindowStats(tenders, s, today, lastAgg.months)
            /\ companies'[s].active_regions
                  = WindowRegions(tenders, s, today, lastAgg.months)]_vars

\* the five statistics alone: every run of aggregate_tender_stats leaves them
\* equal to the figures of the window
C11_StatsPureOfWindow ==
    [][\A lookback_months \in Lookbacks :
          AggregateTenderStats(lookback_months)
          => \A s \in DOMAIN companies :
                AggFields(companies'[s])
                    = WindowStats(tenders, s, today, lookback_months)]_vars

\* after aggregation and region extraction with a lookback of one month, two
\* months after its only deal, the provider has zero statistics and still
\* the region of that deal
C11_Witness ==
    /\ lastOp = "extract_active_regions"
    /\ lastAgg = [months |-> 1, day |-> Today0 + 2 * DaysPerMonth, streak |-> 1]
    /\ today = lastAgg.day
    /\ DOMAIN tenders = {1}
    /\ StirA \in DOMAIN companies
    /\ AggFields(companies[StirA]) = <<0, 0, NULL, NULL, NULL>>
    /\ companies[StirA].active_regions = {"Toshkent"}

----------------------------------------------------------------------------
(* Aggregation with a concurrent reader: the two statements of             *)
(* aggregate_tender_stats are separate steps, harvest writes and profile   *)
(* reads come in between.                                                  *)

StepDeals ==
    {Deal(Some(1), StirA, NameOOO, <<"Toshkent">>, <<"qurilish">>,
          Some(100), Some(cost), Some(Today0)) : cost \in {50, 120}}
    \cup {Deal(Some(2), StirA, NameOOO, <<"MAKTAB">>, <<"qurilish">>,
               Some(300), Some(200), Some(Today0 + DaysPerMonth))}

NextAggSteps ==
    \/ \E deal \in StepDeals : StoreDealUpsert(deal)
    \/ StoreDealInsert
    \/ \E lookback_months \in Lookbacks : AggregateReset(lookback_months)
    \/ AggregateRecompute
    \/ \E stir \in {StirA} : ReadCompanyProfile(stir)
    \/ AdvanceDay(LastDay)

SpecAggSteps == Init /\ [][NextAggSteps]_vars

ZeroStats == <<0, 0, NULL, NULL, NULL>>

(* C12: a profile read made while aggregate_tender_stats is running never  *)
(* returns zeroed statistics for a company that has deals inside the       *)
(* window and had statistics when the run began.                           *)
C12_ReaderNeverSeesZeroed ==
    readerSaw # <<>> =>
        ~(/\ readerSaw[1].running
          /\ readerSaw[1].in_window
          /\ readerSaw[1].before # ZeroStats
          /\ readerSaw[1].info = ZeroStats)

\* a read between the two statements: the provider has a deal in the window,
\* had one win of value 50 before the run, and the read returns zeros
C12_Witness ==
    /\ readerSaw # <<>>
    /\ aggPc # <<>>
    /\ readerSaw[1].running
    /\ readerSaw[1].in_window
    /\ readerSaw[1].before = <<1, 50, Some(5000), Some(Today0), Some(Today0)>>
    /\ readerSaw[1].info = ZeroStats

----------------------------------------------------------------------------
(* Identity merge: region, provenance and canonical name                   *)

\* a step that is an identity merge: upsert_company of the deals scraper or
\* the listing upsert of the ratings scraper
IsMergeStep == lastOp' \in {"upsert_company", "store_listing"} /\ companies' # companies

(* C13: an identity merge from either source leaves the region of a        *)
(* company unchanged when that region is non-null.                         *)
C13_CompanyRegionFillOnly ==
    [][IsMergeStep =>
         \A s \in DOMAIN companies :
             companies[s].region # NULL =>
                 companies'[s].region = companies[s].region]_vars

\* the same stated for the deals upsert alone
C13_DealsUpsertFillOnly ==
    [][(lastOp' = "upsert_company") =>
         \A s \in DOMAIN companies :
             companies[s].region # NULL =>
                 companies'[s].region = companies[s].region]_vars

\* a company first recorded by the deals scraper, whose only deal names
\* Buxoro, holds the region of a later listing row
C13_Witness ==
    /\ lastOp = "store_listing"
    /\ StirA \in DOMAIN companies
    /\ companies[StirA].source = Some("both")
    /\ companies[StirA].region = Some("Toshkent shahri")
    /\ DOMAIN tenders = {1}
    /\ tenders[1].region = Some("Buxoro")
    /\ observed[StirA] = {NameOOO}

\* Provenance specification: one identifier seen by the deals scraper and
\* by the ratings listing in any order, with the enrichment steps that
\* touch the provenance tag
ProvDeals ==
    {Deal(Some(1), StirA, name, <<"MAKTAB">>, <<"qurilish">>,
          Some(100), Some(50), Some(Today0)) : name \in {NameOOO, NameMCHJ}}

ProvListings ==
    {Listing(StirA, name, Some("A"), Some(80), NULL) : name \in {NameOOO, NameInvest}}

NextProvenance ==
    \/ \E deal \in ProvDeals : StoreDealUpsert(deal)
    \/ StoreDealInsert
    \/ \E company \in ProvListings : StoreListingCompany(company)
    \/ \E lookback_months \in Lookbacks : AggregateTenderStats(lookback_months)
    \/ UpdateCompanySource
    \/ AdvanceDay(LastDay)

SpecProvenance == Init /\ [][NextProvenance]_vars

(* C14: a merge of an identifier that is already stored tags the company   *)
(* "both" when the observation comes from the other source than the one    *)
(* recorded (ratings after deals, deals after ratings) and leaves the tag   *)
(* as it is when it comes from the same source.                            *)
C14_BothOnceCorroborated ==
    [][/\ \A deal \in ProvDeals :
            (StoreDealUpsert(deal) /\ deal.provider_inn \in DOMAIN companies)
            => LET old == companies[deal.provider_inn].source
                   new == companies'[deal.provider_inn].source
               IN  /\ old = Some("reyting") => new = Some("both")
                   /\ old = Some("etender") => new = Some("etender")
       /\ \A company \in ProvListings :
            (StoreListingCompany(company) /\ company.inn \in DOMAIN companies)
            => LET old == companies[company.inn].source
                   new == companies'[company.inn].source
               IN  /\ old = Some("etender") => new = Some("both")
                   /\ old = Some("reyting") => new = Some("reyting")]_vars

\* the listing row came first, the deal of the same identifier is stored,
\* and the company is still tagged with the ratings source alone
C14_Witness ==
    /\ lastOp = "store_deal"
    /\ StirA \in DOMAIN companies
    /\ 1 \in DOMAIN tenders
    /\ tenders[1].provider_stir = Some(StirA)
    /\ companies[StirA].rating_fetched_at # NULL
    /\ companies[StirA].source = Some("reyting")

\* the other order: the deal came first and the listing merge tagged "both"
C14_WitnessDealsFirst ==
    /\ lastOp = "store_listing"
    /\ StirA \in DOMAIN companies
    /\ companies[StirA].source = Some("both")
    /\ companies[StirA].total_wins = 0

\* Canonical-name specification: both scrapers observe one identifier under
\* names whose canonical forms differ in length
CanonDeals ==
    {Deal(Some(1), StirA, name, <<"MAKTAB">>, <<"qurilish">>,
          Some(100), Some(50), Some(Today0)) : name \in {NameOOO, NameMCHJ, NameInvest}}

CanonListings ==
    {Listing(StirA, name, Some("A"), score, NULL)
        : name \in {NameOOO, NameQuoted, NameInvest}, score \in {NULL, Some(80)}}

NextCanonical ==
    \/ \E deal \in CanonDeals : StoreDealUpsert(deal)
    \/ StoreDealInsert
    \/ \E company \in CanonListings : StoreListingCompany(company)

SpecCanonical == Init /\ [][NextCanonical]_vars

(* C15: the stored canonical name of a company is the canonical form of    *)
(* one of the names observed for its identifier and no observed name has a *)
(* longer canonical form.                                                  *)
C15_CanonicalIsLongest ==
    \A s \in DOMAIN companies :
        /\ \E n \in observed[s] : companies[s].canonical_name = clean_company_name(n)
        /\ \A n \in observed[s] :
              LENGTH(companies[s].canonical_name) >= LENGTH(clean_company_name(n))

\* a company known only from deals: the second deal name has the longer
\* canonical form and the stored canonical name is still the first, shorter one
C15_Witness ==
    /\ StirA \in DOMAIN companies
    /\ companies[StirA].source = Some("etender")
    /\ companies[StirA].raw_names = <<NameOOO, NameInvest>>
    /\ companies[StirA].canonical_name = <<"GAMMA", WS, "QURILISH">>
    /\ LENGTH(clean_company_name(NameInvest)) > LENGTH(companies[StirA].canonical_name)

----------------------------------------------------------------------------
(* Scrape specification: one scrape_all run over an upstream whose pages   *)
(* fail, are empty or hold deals of every filter outcome.                  *)

\* tier 1 accepted: the category names construction
DealTier1 ==
    Deal(Some(1), StirA, NameOOO, <<"MAKTAB">>, <<"qurilish">>,
         Some(100), Some(50), Some(Today0))
\* tier 1 rejected: the category holds a positive and a negative keyword
DealFood ==
    Deal(Some(2), StirA, NameOOO, <<"MAKTAB">>, <<"pitanie_CYR", WS, "doshkolnyh_CYR">>,
         Some(100), Some(50), Some(Today0))
\* tier 2 accepted: no keyword in the category, one in the provider name
DealTier2 ==
    Deal(Some(3), StirA, NameMCHJ, <<"MAKTAB">>, <<"xizmat">>,
         Some(100), Some(50), Some(Today0))
\* tier 2 overridden: a negative keyword in the category
DealCatering ==
    Deal(Some(4), StirA, NameOOO, <<"MAKTAB">>, <<"Catering">>,
         Some(100), Some(50), Some(Today0))
\* no positive keyword anywhere
DealNone ==
    Deal(Some(5), StirA, <<"GAMMA">>, <<"MAKTAB">>, <<"xizmat">>,
         Some(100), Some(50), Some(Today0))

UpstreamPages == 3

\* what a fetch of page p can give
PageChoices(p) ==
    IF p > UpstreamPages THEN {PageFailed, PageOf(<<>>)}
    ELSE {PageFailed, PageOf(<<>>), PageOf(<<DealTier1, DealFood>>),
          PageOf(<<DealTier2, DealNone>>), PageOf(<<DealCatering>>)}

\* the outcomes of a batch of n pages starting at page p
BatchChoices(p, n) ==
    {r \in [1..n -> PageChoices(1)] : \A i \in 1..n : r[i] \in PageChoices(p + i - 1)}

NextScrape ==
    \/ \E start_page \in {1, 2}, max_pages \in {NULL, Some(0), Some(2)},
          total_count \in {0, 3, 5}, discover_ok \in BOOLEAN :
            ScrapeAll(start_page, max_pages, total_count, discover_ok)
    \/ \E results \in BatchChoices(scrape.page,
                                   Min(etender_concurrency,
                                       scrape.total_pages - scrape.page + 1)) :
            ScrapeFetchBatch(results)
    \/ ScrapePage
    \/ ScrapeDeal
    \/ ScrapeBatchEnd
    \/ ScrapeFinish

SpecScrape == Init /\ [][NextScrape]_vars

\* the two tiers as the filter is specified
Tier1Accepts(deal) ==
    /\ AnyKeywordIn(CONSTRUCTION_KEYWORDS, deal.category_name)
    /\ ~AnyKeywordIn(NON_CONSTRUCTION_KEYWORDS, deal.category_name)
Tier2Accepts(deal) ==
    /\ ~AnyKeywordIn(CONSTRUCTION_KEYWORDS, deal.category_name)
    /\ AnyKeywordIn(CONSTRUCTION_KEYWORDS, JoinNames(deal.customer_name, deal.provider_name))
    /\ ~AnyKeywordIn(NON_CONSTRUCTION_KEYWORDS, deal.category_name)

(* C17: the filter verdict scrape_all acted on for a deal is "accepted"    *)
(* exactly when tier 1 or tier 2 accepts it; the deal whose category holds *)
(* a positive and a negative keyword is rejected, the deal whose category  *)
(* holds only "qurilish" is accepted, and a deal without a positive        *)
(* keyword anywhere is rejected.                                           *)
C17_TwoTierFilter ==
    scrape.lastDeal # <<>> =>
        LET deal == scrape.lastDeal[1].deal
            accepted == scrape.lastDeal[1].accepted
        IN  /\ accepted <=> (Tier1Accepts(deal) \/ Tier2Accepts(deal))
            /\ deal = DealFood => ~accepted
            /\ deal = DealTier1 => accepted
            /\ deal = DealNone => ~accepted

\* the run has stored the tier 1 and the tier 2 deal and has just skipped
\* the deal whose category says catering while its provider name says qurilish
C17_Witness ==
    /\ scrape.lastDeal # <<>>
    /\ scrape.lastDeal[1].deal = DealCatering
    /\ ~scrape.lastDeal[1].accepted
    /\ {1, 3} \subseteq DOMAIN tenders
    /\ DOMAIN tenders \cap {2, 4, 5} = {}
    /\ scrape.stats.skipped >= 3

----------------------------------------------------------------------------
\* the discount of one deal with a positive starting price, in hundredths
\* of a percent
DealDiscount(t) == RoundDiv((t.start_cost - t.deal_cost) * 10000, t.start_cost)

(* C18: after aggregate_tender_stats, for every company with deals in the  *)
(* window, total wins and total value count every deal of the window,      *)
(* while the average discount is that of the deals with a positive         *)
(* starting price alone: null when there is none, the discount of the one  *)
(* such deal when there is one, however many deals without a starting      *)
(* price stand beside it.                                                  *)
C18_DiscountExclusion ==
    [][\A lookback_months \in Lookbacks :
          AggregateTenderStats(lookback_months) =>
            \A s \in DOMAIN companies :
               LET G == AggGroup(tenders, s, today, lookback_months)
                   P == {d \in G : tenders[d].start_cost > 0}
                   c == companies'[s]
               IN  G # {} =>
                     /\ c.total_wins = Cardinality(G)
                     /\ c.total_contract_value = SumDealCost(tenders, G)
                     /\ P = {} => c.avg_discount_pct = NULL
                     /\ \A d \in P :
                          P = {d} => c.avg_discount_pct = Some(DealDiscount(tenders[d]))]_vars

\* two deals in the window, one bought at 50 from 100, one at 200 without a
\* starting price: two wins, value 250, average discount 50.00
C18_Witness ==
    /\ lastOp = "aggregate_tender_stats"
    /\ StirA \in DOMAIN companies
    /\ {1, 2} \subseteq DOMAIN tenders
    /\ tenders[1].start_cost = 100 /\ tenders[1].deal_cost = 50
    /\ tenders[2].start_cost = 0 /\ tenders[2].deal_cost = 200
    /\ companies[StirA].total_wins = 2
    /\ companies[StirA].total_contract_value = 250
    /\ companies[StirA].avg_discount_pct = Some(5000)

\* the only deal in the window has no starting price: null average discount
C18_WitnessAllZero ==
    /\ lastOp = "aggregate_tender_stats"
    /\ StirA \in DOMAIN companies
    /\ companies[StirA].total_wins = 1
    /\ companies[StirA].total_contract_value = 200
    /\ companies[StirA].avg_discount_pct = NULL

----------------------------------------------------------------------------
\* the run is scheduled until it returns: every awaited fetch of a batch comes
\* back (with pages or with exceptions) and every step of the loop is taken.
\* Each step moves the position of the run, which is part of scrape.
SpecScrapeLive == SpecScrape /\ WF_scrape(NextScrape)

(* C19: (1) a batch is fetched only while the page cursor is within the    *)
(* page ceiling and fewer than 3 batches without a record came in a row,   *)
(* and a completed run has reached one of the two; (2) the empty streak is *)
(* the number of batches without any record since the last batch that held *)
(* one; (3) after every batch that does not end the run the cursor has     *)
(* advanced by the batch width, which is at least 1; (4) a run that        *)
(* entered the loop returns.                                               *)
C19_ScrapeAllStops ==
    /\ [](/\ scrape.pc = "batch" =>
               /\ scrape.page <= scrape.total_pages
               /\ scrape.empty_streak < EmptyStreakLimit
          /\ (scrape.pc = "done" /\ scrape.log.status = "completed") =>
               \/ scrape.page > scrape.total_pages
               \/ scrape.empty_streak >= EmptyStreakLimit
          /\ scrape.empty_streak = scrape.norecord_run)
    /\ [][(ScrapeBatchEnd /\ scrape'.pc = "loop") =>
             /\ scrape.batch_size >= 1
             /\ scrape'.page = scrape.page + scrape.batch_size]_vars
    /\ (scrape.pc = "loop") ~> (scrape.pc = "done")

\* a run stopped by the third batch in a row without a record, below its
\* page ceiling, after batches that held records
C19_Witness ==
    /\ scrape.pc = "done"
    /\ scrape.log.status = "completed"
    /\ scrape.empty_streak = EmptyStreakLimit
    /\ scrape.page <= scrape.total_pages
    /\ scrape.stats.found > 0

\* a run stopped by the page ceiling with an empty streak under way
C19_WitnessCeiling ==
    /\ scrape.pc = "done"
    /\ scrape.log.status = "completed"
    /\ scrape.page > scrape.total_pages
    /\ scrape.empty_streak = 1
    /\ scrape.stats.found > 0

----------------------------------------------------------------------------
\* the pages of the last gathered batch whose fetch raised, and the records
\* of its other pages as <<page index, record index>>
FailedPagesOf(results) == {i \in 1..Len(results) : ~results[i].ok}
RecordsOf(results) ==
    {ij \in (1..Len(results)) \X (1..PAGE_SIZE) :
        results[ij[1]].ok /\ ij[2] <= Len(results[ij[1]].items)}
AcceptedOf(results) ==
    {ij \in RecordsOf(results) : is_construction_deal(results[ij[1]].items[ij[2]])}

\* every result of the last gathered batch has been handled
BatchHandled ==
    /\ scrape.batch # <<>>
    /\ scrape.results = <<>>
    /\ scrape.items = <<>>

----------------------------------------------------------------------------
\* Identifier specification: both extractors are handed identifiers of every
\* shape the upstream can deliver
StirShort == "12345"
StirAlpha == "30555123X"

\* the identifiers above that consist of digits only
NumericIds == {StirA, StirLong, StirShort}
IsNineDigit(s) == Len(s) = 9 /\ s \in NumericIds

IdentityDeals ==
    {Deal(Some(id), StirA, name, <<"MAKTAB">>, <<"qurilish">>,
          Some(100), Some(50), Some(Today0)) : id \in {1}, name \in {NameOOO}}
    \cup {Deal(Some(id), StirLong, NameInvest, <<"MAKTAB">>, <<"qurilish">>,
               Some(100), Some(50), Some(Today0)) : id \in {1, 2}}
    \cup {Deal(Some(3), inn, NameOOO, <<"MAKTAB">>, <<"qurilish">>,
               Some(100), Some(50), Some(Today0)) : inn \in {StirShort, StirAlpha, ""}}

IdentityListings ==
    {Listing(inn, NameOOO, Some("A"), Some(80), NULL)
        : inn \in {StirA, StirLong, StirShort, StirAlpha, ""}}

NextIdentity ==
    \/ \E deal \in IdentityDeals : StoreDealUpsert(deal)
    \/ StoreDealInsert
    \/ \E company \in IdentityListings : StoreListingCompany(company)

SpecIdentity == Init /\ [][NextIdentity]_vars

(* C27: every company row is keyed by an identifier of exactly 9 digits.   *)
C27_NineDigitKey ==
    \A s \in DOMAIN companies : IsNineDigit(s)

\* both checks of the extractors do hold: no row has an empty key or a key
\* longer than 9 characters
C27_NotEmptyNotLonger ==
    \A s \in DOMAIN companies : s # "" /\ Len(s) <= 9

\* a company row keyed by a 5-character identifier, created from a deal, and
\* one keyed by a non-numeric identifier
C27_Witness ==
    /\ StirShort \in DOMAIN companies
    /\ companies[StirShort].source = Some("etender")
    /\ StirAlpha \in DOMAIN companies

(* C28: the statement that stores a deal whose provider identifier was     *)
(* longer than 9 characters leaves the deal stored with a null             *)
(* winning-company reference, and neither statement of _store_deal         *)
(* creates or modifies a company row for it.                               *)
C28_LongIdentifierUnresolved ==
    [][\A deal \in IdentityDeals :
          Len(deal.provider_inn) > 9 =>
            /\ StoreDealUpsert(deal) =>
                 /\ companies' = companies
                 /\ pendingDeal' = <<PrepareDeal(deal)>>
            /\ (StoreDealInsert /\ pendingDeal = <<PrepareDeal(deal)>>) =>
                 /\ companies' = companies
                 /\ Val(deal.deal_id) \in DOMAIN tenders'
                 /\ tenders'[Val(deal.deal_id)].provider_stir = NULL]_vars

\* the part that holds: such a deal is stored, no company row is touched,
\* and a deal stored for the first time has a null reference
C28_StoredNoCompany ==
    [][\A deal \in IdentityDeals :
          Len(deal.provider_inn) > 9 =>
            /\ StoreDealUpsert(deal) =>
                 /\ companies' = companies
                 /\ pendingDeal' = <<PrepareDeal(deal)>>
            /\ (StoreDealInsert /\ pendingDeal = <<PrepareDeal(deal)>>) =>
                 /\ companies' = companies
                 /\ Val(deal.deal_id) \in DOMAIN tenders'
                 /\ tenders'[Val(deal.deal_id)].provider_name = deal.provider_name
                 /\ Val(deal.deal_id) \notin DOMAIN tenders =>
                      tenders'[Val(deal.deal_id)].provider_stir = NULL]_vars

\* deal 1 was stored with a valid provider identifier and stored again with
\* a 13-character one: the row carries the new provider name and still the
\* old reference
C28_Witness ==
    /\ 1 \in DOMAIN tenders
    /\ pendingDeal = <<>>
    /\ tenders[1].provider_name = NameInvest
    /\ tenders[1].provider_stir = Some(StirA)

----------------------------------------------------------------------------
\* Labelling specification: a company known from deals only, with wins, a
\* company with and without a rating score, names with and without a
\* negative keyword; classification runs after aggregation or before it
LabelListings ==
    {Listing(StirB, name, Some("B"), score, NULL)
        : name \in {NameMCHJ, NameNazorat, NameEkspertiza}, score \in {NULL, Some(60)}}

LabelDeals ==
    {Deal(Some(1), StirA, NameOOO, <<"MAKTAB">>, <<"qurilish">>,
          Some(100), Some(50), Some(Today0)),
     Deal(Some(2), StirB, NameMCHJ, <<"MAKTAB">>, <<"qurilish">>,
          Some(100), Some(50), Some(Today0))}

NextLabel ==
    \/ \E company \in LabelListings : StoreListingCompany(company)
    \/ \E deal \in LabelDeals : StoreDealUpsert(deal)
    \/ StoreDealInsert
    \/ AggregateTenderStats(1)
    \/ ClassifyCompanyTypes

SpecLabel == Init /\ [][NextLabel]_vars

\* one of the negative keywords occurs in a name of the company
NegativeKeywordMatch(c) == NameMatchesAny(c, Range(non_contractor_keywords))

(* C29: when classify_company_types has just completed, every company with *)
(* a rating score and none of the labels laboratory, assessor, consultant, *)
(* other is labelled contractor, and every company without a rating score  *)
(* and without a negative keyword in its names is labelled unknown,        *)
(* whatever its number of recorded wins.                                   *)
C29_ContractorOrUnknown ==
    lastOp = "classify_company_types" =>
        \A s \in DOMAIN companies :
            /\ (companies[s].rating_score # NULL
                  /\ companies[s].company_type \notin NonContractorTypes)
                 => companies[s].company_type = "contractor"
            /\ (companies[s].rating_score = NULL /\ ~NegativeKeywordMatch(companies[s]))
                 => companies[s].company_type = "unknown"

\* after a run: a company without a rating and with one recorded win is
\* still unknown, and a rated company without a negative keyword is a
\* contractor
C29_Witness ==
    /\ lastOp = "classify_company_types"
    /\ {StirA, StirB} \subseteq DOMAIN companies
    /\ companies[StirA].rating_score = NULL
    /\ companies[StirA].total_wins = 1
    /\ companies[StirA].company_type = "unknown"
    /\ companies[StirB].rating_score # NULL
    /\ companies[StirB].company_type = "contractor"

----------------------------------------------------------------------------
(* C30: a run that has finished with status completed short of the page    *)
(* ceiling has just seen 3 batches in a row in which every page was        *)
(* fetched and returned no record, and the end of a batch in which every   *)
(* page failed leaves the empty streak as it was.                          *)
C30_FailedPageIsNotEmpty ==
    /\ []((/\ scrape.pc = "done"
           /\ scrape.log.status = "completed"
           /\ scrape.page <= scrape.total_pages)
             => scrape.okempty_run >= EmptyStreakLimit)
    /\ [][(ScrapeBatchEnd /\ FailedPagesOf(scrape.batch) = 1..Len(scrape.batch))
             => scrape'.empty_streak = scrape.empty_streak]_vars

\* a run over an upstream that failed on every page: three batches, six
\* failures, no page ever fetched, finished as completed on page 1 of 10000
C30_Witness ==
    /\ scrape.pc = "done"
    /\ scrape.log.status = "completed"
    /\ scrape.total_pages = UnknownTotalPages
    /\ scrape.page = scrape.start_page + 2 * etender_concurrency
    /\ scrape.empty_streak = EmptyStreakLimit
    /\ scrape.okempty_run = 0
    /\ scrape.stats.failed = EmptyStreakLimit * etender_concurrency
    /\ scrape.stats.found = 0

----------------------------------------------------------------------------
\* Detail specification: four companies given by the caller (two batches,
\* the first wider than the semaphore) or the companies selected by score,
\* each detail request answered with data, without data, with a payload
\* that cannot be stored, or failing after its retries
StirC == "300000003"
StirD == "400000004"

\* indicator names as sequences of characters
NameWorkers == <<"S", "o", WS, "n", "i">>
NameWorkersPadded == <<WS, "s", "o", WS, "n", "i", WS>>
NameTwoWords == <<"A", WS, "b">>
KeyWorkers == <<"mehnat_total_workers">>

Indicator(name, key) == [name |-> name, key |-> key]

DetailResponses ==
    {DetailRaised, DetailNoData, DetailMalformed,
     DetailData(<<Indicator(NameWorkers, <<>>), Indicator(NameTwoWords, KeyWorkers)>>)}

DetailListings ==
    {Listing(StirA, NameOOO, Some("A"), Some(80), NULL),
     Listing(StirB, NameMCHJ, Some("B"), Some(60), NULL)}

DetailStirs == {NULL, Some(<<>>), Some(<<StirA, StirB, StirC, StirD>>)}

DetailsRun ==
    \/ \E stirs_arg \in DetailStirs, limit \in {1, 2},
          rows \in {NULL} \cup {Some(r) : r \in SelectTop(companies, 2) \cup SelectTop(companies, 1)} :
            DetailsStart(stirs_arg, limit, rows)
    \/ DetailsGather
    \/ \E k \in 1..DetailBatch : TaskAcquire(k)
    \/ \E k \in 1..DetailBatch, response \in DetailResponses : TaskFetched(k, response)
    \/ \E k \in 1..DetailBatch : TaskRelease(k)
    \/ DetailsBatchDone
    \/ DetailsFinish

NextDetails ==
    \/ (details.pc = "idle" /\ \E company \in DetailListings : StoreListingCompany(company))
    \/ DetailsRun

SpecDetails == Init /\ [][NextDetails]_vars

\* the run is awaited to its end: every task that can take a step takes it
SpecDetailsLive == SpecDetails /\ WF_details(DetailsRun)

(* C25: at no moment are more than reyting_concurrency detail requests in  *)
(* flight, whatever the width of the gathered batch; the semaphore's free  *)
(* permits and its holders always add up to its width, so a waiting task   *)
(* is let in as soon as a holder leaves, whatever happened to that         *)
(* holder's request; every task that got its response is counted once, as  *)
(* inserted or as failed; a run that has returned has handled every        *)
(* selected company exactly once, with found = inserted + failed; and      *)
(* every started run reaches its end.                                      *)
C25_BoundedFanOut ==
    /\ [](/\ Cardinality(InFlight(details.tasks)) <= reyting_concurrency
          /\ details.pc = "gather" =>
               details.sem + Cardinality({k \in 1..Len(details.tasks) :
                                            details.tasks[k] \in {"fetching", "sleeping"}})
                 = reyting_concurrency
          /\ (details.pc = "done" /\ details.outcome = "returned") =>
               /\ details.stats.found = Len(details.stirs)
               /\ details.stats.found = details.stats.inserted + details.stats.failed
               /\ \A n \in 1..Len(details.stirs) : details.handled[n] = 1
               /\ details.log.status = "completed"
               /\ details.log.counts.found = details.stats.found)
    /\ [][\A k \in 1..DetailBatch, response \in DetailResponses :
             TaskFetched(k, response) =>
               /\ details'.stats.inserted + details'.stats.failed
                    = details.stats.inserted + details.stats.failed + 1
               /\ details'.stats.inserted = details.stats.inserted + 1
                    <=> response.kind = "data"]_vars
    /\ (details.pc \in {"loop", "gather"}) ~> (details.pc = "done")

\* a batch of three under a semaphore of two: the first task's request
\* failed and it has left, the second is in flight, the third was let in
\* after the failure and is in flight too
C25_Witness ==
    /\ details.pc = "gather"
    /\ details.tasks = <<"done", "fetching", "fetching">>
    /\ details.sem = 0
    /\ details.stats.failed = 1
    /\ details.stats.inserted = 0

\* the run over four companies has returned: two stored, two failed
C25_WitnessReturned ==
    /\ details.pc = "done"
    /\ details.outcome = "returned"
    /\ Len(details.stirs) = 4
    /\ details.stats.inserted = 2
    /\ details.stats.failed = 2

----------------------------------------------------------------------------
\* Criteria specification: two detail tasks call _ensure_criterion again and
\* again, with and without a key, for names that synthesize the same code
\* and for a name longer than the code column
EnsureTasks == 2

LongName == [i \in 1..(CodeLimit + 1) |-> IF i = 1 THEN "B" ELSE "a"]

EnsureIndicators ==
    {Indicator(NameWorkers, <<>>), Indicator(NameWorkersPadded, <<>>),
     Indicator(LongName, <<>>), Indicator(NameTwoWords, KeyWorkers)}

NextCriteria ==
    \/ \E task \in 1..EnsureTasks, ind \in EnsureIndicators :
          EnsureCall(task, ind.name, ind.key)
    \/ \E task \in 1..EnsureTasks : EnsureSelect(task)
    \/ \E task \in 1..EnsureTasks : EnsureInsert(task)

SpecCriteria == Init /\ [][NextCriteria]_vars

(* C26: no two rows of rating_criteria have the same code; every call that  *)
(* has returned holds the id of the row with its code; a call with a key    *)
(* works with the key, a call without one with the code made from the       *)
(* name: lower-cased, stripped, spaces replaced by underscores, cut to 100  *)
(* characters ("So ni" and " so ni " both give "so_ni").                    *)
C26_OneRowPerCode ==
    /\ \A i, j \in 1..Len(rating_criteria) :
          i # j => rating_criteria[i].code # rating_criteria[j].code
    /\ \A task \in DOMAIN ensure :
          /\ ensure[task].pc = "returned" =>
                /\ ensure[task].id \in 1..Len(rating_criteria)
                /\ rating_criteria[ensure[task].id].code = ensure[task].code
          /\ ensure[task].key # <<>> => ensure[task].code = ensure[task].key
          /\ ensure[task].key = <<>> =>
                /\ ensure[task].name \in {NameWorkers, NameWorkersPadded}
                      => ensure[task].code = <<"s", "o", "_", "n", "i">>
                /\ ensure[task].name = LongName
                      => /\ Len(ensure[task].code) = CodeLimit
                         /\ ensure[task].code[1] = "b"

\* two tasks saw no row for the code "so_ni" at the same time; the first
\* has inserted the row and the second is about to run its INSERT
C26_Witness ==
    /\ DOMAIN ensure = {1, 2}
    /\ ensure[1].pc = "returned"
    /\ ensure[1].id = 1
    /\ ensure[2].pc = "insert"
    /\ ensure[2].id = 0
    /\ ensure[2].code = ensure[1].code
    /\ ensure[2].key = <<>>
    /\ ensure[2].name # ensure[1].name
    /\ Len(rating_criteria) = 1

\* both have returned: one row, the same id, the name of the later writer
C26_WitnessBoth ==
    /\ DOMAIN ensure = {1, 2}
    /\ ensure[1].pc = "returned"
    /\ ensure[2].pc = "returned"
    /\ ensure[1].id = ensure[2].id
    /\ ensure[1].name = NameWorkers
    /\ ensure[2].name = NameWorkersPadded
    /\ rating_criteria = <<[code |-> <<"s", "o", "_", "n", "i">>,
                           name_ru |-> NameWorkersPadded]>>

----------------------------------------------------------------------------
\* Runs specification: the scrape command. It awaits scrape_all, then, when
\* that run returned (or was not asked for), scrape_companies: the listing
\* run and, when it returned, the detail run over the companies selected by
\* score. Fetches fail after their retries, pages hold records that are
\* stored, records that cannot be stored and records that raise.

\* a deal the filter accepts whose payload carries no deal_id
DealNoId ==
    Deal(NULL, StirA, NameOOO, <<"MAKTAB">>, <<"qurilish">>,
         Some(100), Some(50), Some(Today0))
\* a deal the filter accepts whose start_cost cannot be parsed
DealBadCost ==
    Deal(Some(6), StirB, NameMCHJ, <<"MAKTAB">>, <<"qurilish">>,
         Some(BadCost), Some(50), Some(Today0))

RunPageChoices(p) ==
    IF p > UpstreamPages THEN {PageFailed, PageOf(<<>>)}
    ELSE {PageFailed, PageOf(<<DealTier1, DealNoId>>), PageOf(<<DealBadCost, DealNone>>)}

RunBatchChoices(p, n) ==
    {r \in [1..n -> RunPageChoices(1)] : \A i \in 1..n : r[i] \in RunPageChoices(p + i - 1)}

ListingValid == Listing(StirA, NameOOO, Some("A"), Some(80), NULL)
ListingLongInn == Listing(StirLong, NameInvest, Some("B"), Some(60), NULL)
ListingBadScore == Listing(StirB, NameMCHJ, Some("B"), Some(BadScore), NULL)

RunListingPages ==
    {PageFailed, PageOf(<<ListingValid, ListingLongInn>>), PageOf(<<ListingBadScore>>)}

\* the responses of the endpoint for the total of a type: failing after the
\* retries, no company, one page of companies
RunListingTotals == {NULL, Some(0), Some(per_page)}

\* scrape_all, awaited first by the command
ScrapeRun ==
    \/ /\ listing.pc = "idle"
       /\ \E discover_ok \in BOOLEAN : ScrapeAll(1, Some(2), 25, discover_ok)
    \/ \E results \in RunBatchChoices(scrape.page,
                                      Min(etender_concurrency,
                                          scrape.total_pages - scrape.page + 1)) :
            ScrapeFetchBatch(results)
    \/ ScrapePage
    \/ ScrapeDeal
    \/ ScrapeBatchEnd
    \/ ScrapeFinish

\* scrape_listing, awaited by scrape_companies
ListingRun ==
    \/ /\ details.pc = "idle"
       /\ IF scrape.pc = "idle" THEN TRUE
          ELSE scrape.pc = "done" /\ scrape.outcome = "returned"
       /\ ListingStart
    \/ \E total \in RunListingTotals : ListingCount(total)
    \/ \E result \in RunListingPages : ListingPage(result)
    \/ ListingStore
    \/ ListingNextType
    \/ ListingFinish

\* scrape_details(stirs=None, limit), awaited by scrape_companies after the
\* listing run returned
DetailsAfterListing ==
    \/ /\ listing.pc = "done"
       /\ listing.outcome = "returned"
       /\ \E limit \in {1, 2},
             rows \in {NULL} \cup {Some(r) : r \in SelectTop(companies, 2)
                                                   \cup SelectTop(companies, 1)} :
               DetailsStart(NULL, limit, rows)
    \/ DetailsGather
    \/ \E k \in 1..DetailBatch : TaskAcquire(k)
    \/ \E k \in 1..DetailBatch, response \in DetailResponses : TaskFetched(k, response)
    \/ \E k \in 1..DetailBatch : TaskRelease(k)
    \/ DetailsBatchDone
    \/ DetailsFinish

NextRuns ==
    \/ ScrapeRun
    \/ ListingRun
    \/ DetailsAfterListing

SpecRuns == Init /\ [][NextRuns]_vars

(* C24: when scrape_all or scrape_listing has returned, every found record *)
(* is counted once (found = inserted + updated + skipped + records whose   *)
(* store raised), and no record was counted as inserted or updated without *)
(* its row having been written: a deal without deal_id and a company whose *)
(* identifier is empty or longer than nine characters are counted as       *)
(* skipped or failed.                                                      *)
C24_NothingDropped ==
    /\ scrape.outcome = "returned" =>
          /\ scrape.stats.found = scrape.stats.inserted + scrape.stats.updated
                                  + scrape.stats.skipped + scrape.record_failed
          /\ scrape.unstored = 0
    /\ listing.outcome = "returned" =>
          /\ listing.stats.found = listing.stats.inserted + listing.stats.updated
                                   + listing.stats.skipped + listing.record_failed
          /\ listing.unstored = 0

\* the part of C24 that holds: every found record is counted exactly once
C24_CountedOnce ==
    /\ scrape.stats.found = scrape.stats.inserted + scrape.stats.updated
                            + scrape.stats.skipped + scrape.record_failed
    /\ listing.stats.found = listing.stats.inserted + listing.stats.updated
                             + listing.stats.skipped + listing.record_failed

\* scrape_all returned having counted the deal without deal_id as updated:
\* two records counted as written, one tender row; then scrape_listing
\* returned having counted the company with the 13-character identifier as
\* inserted: two counted, one company of the ratings source
C24_Witness ==
    /\ scrape.outcome = "returned"
    /\ scrape.unstored = 1
    /\ scrape.stats.inserted + scrape.stats.updated = 2
    /\ DOMAIN tenders = {1}
    /\ listing.outcome = "returned"
    /\ listing.unstored = 1
    /\ listing.stats.inserted = 2
    /\ StirLong \notin DOMAIN companies
    /\ StirA \in DOMAIN companies

(* C23: no harvest run is ended by a fetch that failed after its retries:  *)
(* the ledger entry of scrape_all, scrape_listing and scrape_details never *)
(* becomes failed with the error of such a fetch, the total-count requests *)
(* included; the run goes on and returns.                                  *)
C23_TransientNeverAborts ==
    /\ scrape.log.error # Some(FetchError)
    /\ listing.log.error # Some(FetchError)
    /\ details.log.error # Some(FetchError)

\* the part of C23 that holds: once the totals are known, a failed page or
\* detail fetch is counted and the run goes on; the detail run is never
\* ended by a fetch
C23_PageFailuresCounted ==
    /\ details.log.error # Some(FetchError)
    /\ scrape.outcome = "raised" => scrape.page = 0
    /\ listing.outcome = "raised" => listing.pc = "done" /\ listing.items = <<>>
    /\ listing.stats.failed > 0 /\ listing.outcome = "returned" =>
          listing.log.status = "completed"

\* the request for the total of the second type failed: the listing run
\* raised after it had stored the companies of the first type, and its
\* ledger entry is failed without their counts
C23_Witness ==
    /\ listing.outcome = "raised"
    /\ listing.type_index = 2
    /\ listing.stats.inserted > 0
    /\ listing.log.status = "failed"
    /\ listing.log.error = Some(FetchError)
    /\ listing.log.counts = ZeroCounts

\* a run is at rest with the ledger as the code leaves it on that exit
LedgerAtEnd(pc, outcome, log) ==
    /\ log.rows = IF pc = "idle" THEN 0 ELSE 1
    /\ pc = "done" =>
          \/ outcome = "returned" /\ log.status = "completed" /\ log.error = NULL
          \/ outcome = "raised" /\ log.status = "failed" /\ log.error # NULL
    /\ pc \notin {"idle", "done"} => log.status = "running"

C21_WitnessReturned ==
    /\ scrape.outcome = "returned"
    /\ listing.outcome = "returned"
    /\ details.outcome = "returned" /\ details.log.status = "completed"
    /\ details.log.counts.found = details.stats.found

----------------------------------------------------------------------------
\* Cancel specification: the runs of the scrape command, and the task that
\* awaits them cancelled from outside (asyncio.run on an interrupt):
\* CancelledError is raised at the await the run is suspended in.

\* str(asyncio.CancelledError())
CancelText == ""

\* CancelledError leaves the run. Where it derives from Exception the
\* except clause of the run catches it and writes the ledger with
\* str(exc); where it derives from BaseException no clause of the run
\* catches it and the ledger is not written.
RunCancelled(run, caught) ==
    [run EXCEPT !.pc = "done", !.outcome = "cancelled",
                !.log = IF caught THEN finish_scrape_log(@, "failed", Some(CancelText))
                        ELSE @]

ScrapeCancel(caught) ==
    /\ scrape.pc \in {"loop", "batch"}
    /\ scrape' = RunCancelled(scrape, caught)
    /\ UNCHANGED <<ratingVars, companies, tenders, pendingDeal, observed, lastOp, lastCount, today,
                   regionFilled, lastAgg, aggPc, readerSaw, req>>

ListingCancel(caught) ==
    /\ listing.pc \in {"count", "page"}
    /\ listing' = RunCancelled(listing, caught)
    /\ UNCHANGED <<companies, tenders, pendingDeal, observed, lastOp, lastCount, today,
                   regionFilled, lastAgg, aggPc, readerSaw, scrape, details,
                   rating_criteria, ensure, req>>

\* the tasks of the gathered batch are cancelled with the run
DetailsCancel(caught) ==
    /\ details.pc \in {"loop", "gather"}
    /\ details' = RunCancelled(details, caught)
    /\ UNCHANGED <<companies, tenders, pendingDeal, observed, lastOp, lastCount, today,
                   regionFilled, lastAgg, aggPc, readerSaw, scrape, listing,
                   rating_criteria, ensure, req>>

NextCancel ==
    \/ NextRuns
    \/ \E caught \in BOOLEAN : ScrapeCancel(caught)
    \/ \E caught \in BOOLEAN : ListingCancel(caught)
    \/ \E caught \in BOOLEAN : DetailsCancel(caught)

SpecCancel == Init /\ [][NextCancel]_vars

\* the run issues a request in this step: a page batch, a total or a page
\* of the listing, a detail request
IssuesRequest ==
    \/ scrape.pc = "loop" /\ scrape'.pc = "batch"
    \/ listing.pc \in {"count", "page"} /\ listing.items = <<>> /\ listing' # listing
          /\ listing'.pc # "done"
    \/ \E k \in 1..Len(details.tasks) :
          details.tasks[k] = "waiting" /\ details'.pc = "gather"
              /\ details'.tasks[k] = "fetching"

(* C22: a harvest run that was cancelled from outside has its ledger entry *)
(* failed with a reason that names the cancellation (a text that is not    *)
(* empty), never running; and after the cancellation no run of the command *)
(* issues a request.                                                       *)
C22_CancelMarksFailed ==
    /\ [](/\ scrape.outcome = "cancelled" =>
                scrape.log.status = "failed" /\ scrape.log.error \notin {NULL, Some("")}
          /\ listing.outcome = "cancelled" =>
                listing.log.status = "failed" /\ listing.log.error \notin {NULL, Some("")}
          /\ details.outcome = "cancelled" =>
                details.log.status = "failed" /\ details.log.error \notin {NULL, Some("")})
    /\ [][("cancelled" \in {scrape.outcome, listing.outcome, details.outcome})
            => ~IssuesRequest]_vars

\* the part of C22 that holds: after the cancellation no request is issued
\* and the cancelled run takes no further step
C22_StopsRequests ==
    [][("cancelled" \in {scrape.outcome, listing.outcome, details.outcome})
         => /\ ~IssuesRequest
            /\ scrape.outcome = "cancelled" => scrape' = scrape
            /\ listing.outcome = "cancelled" => listing' = listing
            /\ details.outcome = "cancelled" => details' = details]_vars

\* the detail run was cancelled with a request in flight and its ledger
\* entry is still running
C22_Witness ==
    /\ details.outcome = "cancelled"
    /\ InFlight(details.tasks) # {}
    /\ details.log.status = "running"
    /\ details.log.error = NULL

\* scrape_all was cancelled where the except clause catches CancelledError:
\* the entry is failed and its error text is empty
C22_WitnessEmptyText ==
    /\ scrape.outcome = "cancelled"
    /\ scrape.log.status = "failed"
    /\ scrape.log.error = Some(CancelText)

=============================================================================
